---- MODULE Spec2Model ----
(***************************************************************************)
(* Model of the Altmetric MCP server: the API client                       *)
(* (src/lib/api-client.js) with the digest canonicaliser and signer        *)
(* generateExplorerDigest and the request builders makeDetailsApiRequest   *)
(* and makeExplorerApiRequest, validateIdentifier of lib/validators.js,    *)
(* the startup and the request handlers of index.js, the tool handlers of  *)
(* lib/tools.js, and the release script publish.sh.                        *)
(*                                                                         *)
(* JavaScript strings are sequences of one-character strings, so that      *)
(* joining, template literals, String(n) and the default sort order are    *)
(* computed, not assumed.  JavaScript values are tagged records.  A plain  *)
(* object is the sequence of its own enumerable entries in enumeration     *)
(* order.  HMAC-SHA1 is an uninterpreted constructor.  What the            *)
(* identifiers-* libraries extract from an identifier, and what the        *)
(* commands of publish.sh report, are inputs.                              *)
(*                                                                         *)
(* Spec explores one direct call of a function of api-client.js,           *)
(* NumberSpec direct calls of generateExplorerDigest on integer values,    *)
(* ServerSpec a server process from startup through concurrent tool calls, *)
(* ToolSpec a server process answering a tools/list request and one        *)
(* tools/call request of any tool, ValidatorSpec direct calls of           *)
(* validateIdentifier, PublishSpec successive runs of publish.sh.          *)
(***************************************************************************)
EXTENDS Integers, Sequences, FiniteSets, TLC

(***************************************************************************)
(* Bounds of the explored input space.                                     *)
(***************************************************************************)
MaxKeys == 2          \* entries of a filters object
MaxListLen == 2       \* elements of a list-valued filter
MaxSecretLen == 17    \* longest secret tried
MaxNumber == 110      \* numeric filter values range over -MaxNumber..MaxNumber
MaxDetailsKeys == 1   \* entries of a params object of makeDetailsApiRequest

(***************************************************************************)
(* JavaScript values.                                                      *)
(***************************************************************************)
Undefined == [t |-> "undefined"]
Null == [t |-> "null"]
Str(s) == [t |-> "string", s |-> s]
Num(n) == [t |-> "number", n |-> n]
Arr(a) == [t |-> "array", a |-> a]

IsString(v) == v.t = "string"
IsArray(v) == v.t = "array"
IsNullish(v) == v.t \in {"undefined", "null"}

\* ToBoolean for the value kinds used as secrets and API keys.
Truthy(v) ==
  CASE v.t = "undefined" -> FALSE
    [] v.t = "null" -> FALSE
    [] v.t = "string" -> Len(v.s) > 0
    [] v.t = "number" -> v.n # 0
    [] OTHER -> TRUE

(***************************************************************************)
(* Characters and strings.                                                 *)
(***************************************************************************)
CodeTable ==
  { <<",", 44>>, <<"-", 45>>, <<"0", 48>>, <<"1", 49>>, <<"2", 50>>,
    <<"3", 51>>, <<"4", 52>>, <<"5", 53>>, <<"6", 54>>, <<"7", 55>>,
    <<"8", 56>>, <<"9", 57>>, <<"[", 91>>, <<"]", 93>>, <<"_", 95>>,
    <<"a", 97>>, <<"b", 98>>, <<"c", 99>>, <<"d", 100>>, <<"e", 101>>,
    <<"f", 102>>, <<"g", 103>>, <<"h", 104>>, <<"i", 105>>, <<"j", 106>>,
    <<"k", 107>>, <<"l", 108>>, <<"m", 109>>, <<"n", 110>>, <<"o", 111>>,
    <<"p", 112>>, <<"q", 113>>, <<"r", 114>>, <<"s", 115>>, <<"t", 116>>,
    <<"u", 117>>, <<"v", 118>>, <<"w", 119>>, <<"x", 120>>, <<"y", 121>>,
    <<"z", 122>>, <<"|", 124>> }

\* UTF-16 code unit of a character.
CharCode(c) == (CHOOSE p \in CodeTable : p[1] = c)[2]

DigitChars == <<"0", "1", "2", "3", "4", "5", "6", "7", "8", "9">>

RECURSIVE NumberToString_Padded(_)
\* Variant: a number below ten is written with a leading zero.
NumberToString_Padded(n) ==
  IF n < 10 THEN <<"0", DigitChars[n + 1]>>
  ELSE NumberToString_Padded(n \div 10) \o <<DigitChars[(n % 10) + 1]>>

RECURSIVE NumberToString(_)
\* Number::toString for a non-negative integer: canonical decimal digits.
NumberToString(n) ==
  IF n < 10 THEN <<DigitChars[n + 1]>>
  ELSE NumberToString(n \div 10) \o <<DigitChars[(n % 10) + 1]>>

\* String(v) for a string or an integer number.
StringOf(v) ==
  CASE v.t = "string" -> v.s
    [] v.t = "number" -> IF v.n < 0 THEN <<"-">> \o NumberToString(-v.n)
                         ELSE NumberToString(v.n)
    [] v.t = "undefined" -> <<"u", "n", "d", "e", "f", "i", "n", "e", "d">>
    [] v.t = "null" -> <<"n", "u", "l", "l">>

\* Variant: strings of digits are compared as numbers (the shorter one is
\* the smaller), other strings by code units.
StrLess_Numeric(a, b) ==
  LET digits(x) == \A i \in 1..Len(x) : CharCode(x[i]) \in 48..57
      before(x, y) ==
        \E i \in 1..Len(y) :
          /\ i <= Len(x) + 1
          /\ SubSeq(x, 1, i - 1) = SubSeq(y, 1, i - 1)
          /\ (i = Len(x) + 1 \/ CharCode(x[i]) < CharCode(y[i]))
  IN IF digits(a) /\ digits(b) /\ Len(a) # Len(b) THEN Len(a) < Len(b)
     ELSE before(a, b)

RECURSIVE StrLess(_, _)
\* a < b by UTF-16 code units, the order of Array.prototype.sort without a
\* comparator.
StrLess(a, b) ==
  IF Len(b) = 0 THEN FALSE
  ELSE IF Len(a) = 0 THEN TRUE
  ELSE IF CharCode(Head(a)) # CharCode(Head(b))
       THEN CharCode(Head(a)) < CharCode(Head(b))
  ELSE StrLess(Tail(a), Tail(b))

RECURSIVE SortInsert(_, _)
SortInsert(sorted, x) ==
  IF Len(sorted) = 0 THEN <<x>>
  ELSE IF StrLess(x, Head(sorted)) THEN <<x>> \o sorted
  ELSE <<Head(sorted)>> \o SortInsert(Tail(sorted), x)

RECURSIVE Sort(_)
\* Array.prototype.sort() on an array of strings (stable, ascending).
Sort(arr) ==
  IF Len(arr) = 0 THEN <<>>
  ELSE SortInsert(Sort(SubSeq(arr, 1, Len(arr) - 1)), arr[Len(arr)])

\* Array.prototype.includes on an array of strings.
Includes(arr, x) == \E i \in 1..Len(arr) : arr[i] = x

RECURSIVE Join_Trailing(_, _)
\* Variant: a separator after every element, the last one included.
Join_Trailing(arr, sep) ==
  IF Len(arr) = 0 THEN <<>>
  ELSE LET last == arr[Len(arr)]
           text == IF IsNullish(last) THEN <<>> ELSE StringOf(last)
       IN Join_Trailing(SubSeq(arr, 1, Len(arr) - 1), sep) \o text \o sep

RECURSIVE Join(_, _)
\* Array.prototype.join(sep): null and undefined elements become the empty
\* string, every other element its String() form.
Join(arr, sep) ==
  IF Len(arr) = 0 THEN <<>>
  ELSE LET last == arr[Len(arr)]
           text == IF IsNullish(last) THEN <<>> ELSE StringOf(last)
       IN IF Len(arr) = 1 THEN text
          ELSE Join(SubSeq(arr, 1, Len(arr) - 1), sep) \o sep \o text

(***************************************************************************)
(* Plain objects: the sequence of entries in enumeration order.            *)
(***************************************************************************)
Entry(k, v) == [key |-> k, value |-> v]
IsObject(o) == o.t = "object"
Obj(entries) == [t |-> "object", entries |-> entries]

\* Object.keys(o)
ObjectKeys(o) == [i \in 1..Len(o.entries) |-> o.entries[i].key]

\* o[key], undefined when the key is absent
Get(o, k) ==
  IF \E i \in 1..Len(o.entries) : o.entries[i].key = k
  THEN o.entries[CHOOSE i \in 1..Len(o.entries) : o.entries[i].key = k].value
  ELSE Undefined

\* an integer key: the canonical decimal digits of a number
IsIntegerKey(k) ==
  /\ Len(k) > 0
  /\ \A i \in 1..Len(k) : CharCode(k[i]) \in 48..57
  /\ Len(k) = 1 \/ k[1] # "0"

RECURSIVE KeyToNumber(_)
KeyToNumber(k) ==
  IF Len(k) = 0 THEN 0
  ELSE 10 * KeyToNumber(SubSeq(k, 1, Len(k) - 1)) + (CharCode(k[Len(k)]) - 48)

RECURSIVE AscendingKeys(_)
\* entries with integer keys, least number first
AscendingKeys(es) ==
  IF Len(es) = 0 THEN <<>>
  ELSE LET least == CHOOSE i \in 1..Len(es) :
                      \A j \in 1..Len(es) :
                        KeyToNumber(es[i].key) <= KeyToNumber(es[j].key)
       IN <<es[least]>>
            \o AscendingKeys([j \in 1..(Len(es) - 1) |->
                                IF j < least THEN es[j] ELSE es[j + 1]])

\* The order in which an object whose properties were created in the order
\* es enumerates them: integer keys first, in ascending numeric order, then
\* the other keys in creation order.
OwnPropertyOrder(es) ==
  AscendingKeys(SelectSeq(es, LAMBDA e : IsIntegerKey(e.key)))
    \o SelectSeq(es, LAMBDA e : ~IsIntegerKey(e.key))

(***************************************************************************)
(* Completion records and errors.                                          *)
(***************************************************************************)
Return(v) == [kind |-> "return", value |-> v]
Throw(e) == [kind |-> "throw", error |-> e]
Message(text) == [text |-> text]
Error(msg) == [name |-> "Error", message |-> msg]
TypeError(msg) == [name |-> "TypeError", message |-> msg]
NoResult == [kind |-> "none"]

InvalidSecretMessage ==
  Message("ALTMETRIC_EXPLORER_API_SECRET must be at least 16 characters")

(***************************************************************************)
(* generateExplorerDigest (src/lib/api-client.js:9-42)                     *)
(***************************************************************************)
MinSecretLength == 16

\* secret.length; undefined for a value without that property
LengthOf(v) == IF v.t = "string" THEN Len(v.s) ELSE -1

\* Variant: the comparison written <= instead of <.
SecretRejected_OffByOne(secret) ==
  ~Truthy(secret) \/ LengthOf(secret) <= MinSecretLength

\* line 10: !secret || secret.length < 16
SecretRejected(secret) == ~Truthy(secret) \/ LengthOf(secret) < MinSecretLength

\* Variant: page[size] forgotten in the exclusion list.
excludeFromDigest_NoPageSize ==
  << <<"o", "r", "d", "e", "r">>,
     <<"p", "a", "g", "e", "[", "n", "u", "m", "b", "e", "r", "]">> >>

\* line 15
excludeFromDigest ==
  << <<"o", "r", "d", "e", "r">>,
     <<"p", "a", "g", "e", "[", "n", "u", "m", "b", "e", "r", "]">>,
     <<"p", "a", "g", "e", "[", "s", "i", "z", "e", "]">> >>

NotExcluded(key) == ~Includes(excludeFromDigest, key)

\* Variant: the .sort() call left out.
filterKeys_Unsorted(filters) == SelectSeq(ObjectKeys(filters), NotExcluded)

\* lines 18-20
filterKeys(filters) == Sort(SelectSeq(ObjectKeys(filters), NotExcluded))

RECURSIVE SortValues(_)
\* the values of a list ordered by their String() form
SortValues(list) ==
  IF Len(list) = 0 THEN <<>>
  ELSE LET least == CHOOSE i \in 1..Len(list) :
                      \A j \in 1..Len(list) :
                        ~StrLess(StringOf(list[j]), StringOf(list[i]))
           rest == [j \in 1..(Len(list) - 1) |->
                      IF j < least THEN list[j] ELSE list[j + 1]]
       IN <<list[least]>> \o SortValues(rest)

RECURSIVE PushAll_SortedLists(_, _, _)
\* Variant: the elements of a list are sorted before they are pushed.
PushAll_SortedLists(filters, keys, acc) ==
  IF Len(keys) = 0 THEN acc
  ELSE LET key == Head(keys)
           value == Get(filters, key)
       IN PushAll_SortedLists(filters, Tail(keys),
            IF IsArray(value) THEN Append(acc, Str(key)) \o SortValues(value.a)
            ELSE Append(Append(acc, Str(key)), value))

RECURSIVE PushAll_ScalarKeyMissing(_, _, _)
\* Variant: the else branch pushes the value without its key.
PushAll_ScalarKeyMissing(filters, keys, acc) ==
  IF Len(keys) = 0 THEN acc
  ELSE LET key == Head(keys)
           value == Get(filters, key)
       IN PushAll_ScalarKeyMissing(filters, Tail(keys),
            IF IsArray(value) THEN Append(acc, Str(key)) \o value.a
            ELSE Append(acc, value))

RECURSIVE PushAll(_, _, _)
\* lines 25-34: the forEach over the sorted keys, pushing onto parts
PushAll(filters, keys, acc) ==
  IF Len(keys) = 0 THEN acc
  ELSE LET key == Head(keys)
           value == Get(filters, key)
       IN PushAll(filters, Tail(keys),
                  IF IsArray(value) THEN Append(acc, Str(key)) \o value.a
                  ELSE Append(Append(acc, Str(key)), value))

parts(filters) == PushAll(filters, filterKeys(filters), <<>>)

\* line 36
filterString(filters) == Join(parts(filters), <<"|">>)

\* lines 39-41: crypto.createHmac('sha1', secret).update(s).digest('hex')
SHA1_BYTES == 20
Hmac(secret, message) == [alg |-> "sha1", key |-> secret, message |-> message]
HexDigest(h) == [t |-> "hexdigest", case |-> "lower", len |-> 2 * SHA1_BYTES, of |-> h]

\* Variant: nothing is signed when no filter is left after exclusion.
generateExplorerDigest_SkipEmpty(filters, secret) ==
  IF SecretRejected(secret)
  THEN [result |-> Throw(Error(InvalidSecretMessage)),
        readFilters |-> FALSE, updates |-> <<>>]
  ELSE IF ~IsObject(filters)
  THEN [result |-> Throw(TypeError(Message("Cannot convert undefined or null to object"))),
        readFilters |-> TRUE, updates |-> <<>>]
  ELSE IF Len(parts(filters)) = 0
  THEN [result |-> Return(Str(<<>>)), readFilters |-> TRUE, updates |-> <<>>]
  ELSE LET signed == filterString(filters)
       IN [result |-> Return(HexDigest(Hmac(secret, signed))),
           readFilters |-> TRUE, updates |-> <<signed>>]

\* Variant: the error message quotes the rejected secret.
generateExplorerDigest_EchoesSecret(filters, secret) ==
  IF SecretRejected(secret)
  THEN [result |-> Throw(Error([text |-> "invalid ALTMETRIC_EXPLORER_API_SECRET: ",
                                secret |-> secret])),
        readFilters |-> FALSE, updates |-> <<>>]
  ELSE IF ~IsObject(filters)
  THEN [result |-> Throw(TypeError(Message("Cannot convert undefined or null to object"))),
        readFilters |-> TRUE, updates |-> <<>>]
  ELSE LET signed == filterString(filters)
       IN [result |-> Return(HexDigest(Hmac(secret, signed))),
           readFilters |-> TRUE, updates |-> <<signed>>]

\* The whole call, with what it did on the way: whether filters was read and
\* the strings handed to hmac.update.
generateExplorerDigest(filters, secret) ==
  IF SecretRejected(secret)
  THEN [result |-> Throw(Error(InvalidSecretMessage)),
        readFilters |-> FALSE, updates |-> <<>>]
  ELSE IF ~IsObject(filters)
  THEN [result |-> Throw(TypeError(Message("Cannot convert undefined or null to object"))),
        readFilters |-> TRUE, updates |-> <<>>]
  ELSE LET signed == filterString(filters)
       IN [result |-> Return(HexDigest(Hmac(secret, signed))),
           readFilters |-> TRUE, updates |-> <<signed>>]

(***************************************************************************)
(* makeExplorerApiRequest (src/lib/api-client.js:88-129)                   *)
(***************************************************************************)
KeyRequiredMessage ==
  Message("ALTMETRIC_EXPLORER_API_KEY is required for Explorer API calls")

\* Variant: order forgotten among the unwrapped parameters.
nonFilterParams_NoOrder ==
  << <<"p", "a", "g", "e", "[", "n", "u", "m", "b", "e", "r", "]">>,
     <<"p", "a", "g", "e", "[", "s", "i", "z", "e", "]">> >>

\* line 100
nonFilterParams ==
  << <<"p", "a", "g", "e", "[", "n", "u", "m", "b", "e", "r", "]">>,
     <<"p", "a", "g", "e", "[", "s", "i", "z", "e", "]">>,
     <<"o", "r", "d", "e", "r">> >>

\* One URLSearchParams pair; append() stores the String() form of the value.
Param(name, value) == [name |-> name, value |-> value]

\* the values of the parameters of that name, in URL order
ValuesNamed(params, name) ==
  LET named == SelectSeq(params, LAMBDA p : p.name = name)
  IN [i \in 1..Len(named) |-> named[i].value]

\* `filter[${key}]` and `filter[${key}][]`
FilterName(key) == <<"f", "i", "l", "t", "e", "r", "[">> \o key \o <<"]">>
FilterListName(key) == FilterName(key) \o <<"[", "]">>

\* line 108: value.forEach(v => url.searchParams.append(`filter[${key}][]`, v))
ListParams(key, list) ==
  [i \in 1..Len(list) |-> Param(FilterListName(key), Str(StringOf(list[i])))]

\* lines 103-112: what one entry appends to url.searchParams
EntryParams(key, value) ==
  IF value # Undefined /\ value # Null
  THEN IF Includes(nonFilterParams, key)
       THEN <<Param(key, Str(StringOf(value)))>>
       ELSE IF IsArray(value)
            THEN ListParams(key, value.a)
            ELSE <<Param(FilterName(key), Str(StringOf(value)))>>
  ELSE <<>>

RECURSIVE AppendEntries(_, _)
\* lines 102-113: Object.entries(filters).forEach(...)
AppendEntries(params, entries) ==
  IF Len(entries) = 0 THEN params
  ELSE AppendEntries(params \o EntryParams(Head(entries).key, Head(entries).value),
                     Tail(entries))

\* lines 73 and 125: the sanitized error for a non-OK status n
RequestFailed(n) ==
  Throw(Error([text |-> "API request failed with status ", status |-> n]))

KeyName == <<"k", "e", "y">>
DigestName == <<"d", "i", "g", "e", "s", "t">>

\* Variant: the digest is appended only when a filter was given.
makeExplorerApiRequest_DigestIfFilters(filtersArg, apiKey, apiSecret) ==
  LET filters == IF filtersArg = Undefined THEN Obj(<<>>) ELSE filtersArg
      nothing == [result |-> NoResult, readFilters |-> FALSE, updates |-> <<>>]
  IN IF ~Truthy(apiKey)
     THEN [settled |-> Throw(Error(KeyRequiredMessage)), url |-> <<>>,
           digest |-> nothing]
     ELSE IF ~IsObject(filters)
     THEN [settled |-> Throw(TypeError(Message("Cannot convert undefined or null to object"))),
           url |-> <<Param(KeyName, apiKey)>>, digest |-> nothing]
     ELSE LET withFilters ==
                AppendEntries(<<Param(KeyName, apiKey)>>, filters.entries)
              digest == generateExplorerDigest(filters, apiSecret)
          IN IF digest.result.kind = "throw"
             THEN [settled |-> digest.result, url |-> withFilters,
                   digest |-> digest]
             ELSE IF Len(filters.entries) = 0
             THEN [settled |-> NoResult, url |-> withFilters, digest |-> nothing]
             ELSE [settled |-> NoResult,
                   url |-> Append(withFilters,
                                  Param(DigestName, digest.result.value)),
                   digest |-> digest]

\* lines 88-119: the synchronous part of the call, up to the first await.
\* `settled` is the rejection when the call fails before fetch is reached.
makeExplorerApiRequest(filtersArg, apiKey, apiSecret) ==
  LET filters == IF filtersArg = Undefined THEN Obj(<<>>) ELSE filtersArg
      nothing == [result |-> NoResult, readFilters |-> FALSE, updates |-> <<>>]
  IN IF ~Truthy(apiKey)
     THEN [settled |-> Throw(Error(KeyRequiredMessage)), url |-> <<>>,
           digest |-> nothing]
     ELSE IF ~IsObject(filters)
     THEN [settled |-> Throw(TypeError(Message("Cannot convert undefined or null to object"))),
           url |-> <<Param(KeyName, apiKey)>>, digest |-> nothing]
     ELSE LET withFilters ==
                AppendEntries(<<Param(KeyName, apiKey)>>, filters.entries)
              digest == generateExplorerDigest(filters, apiSecret)
          IN IF digest.result.kind = "throw"
             THEN [settled |-> digest.result, url |-> withFilters,
                   digest |-> digest]
             ELSE [settled |-> NoResult,
                   url |-> Append(withFilters,
                                  Param(DigestName, digest.result.value)),
                   digest |-> digest]

(***************************************************************************)
(* makeDetailsApiRequest (src/lib/api-client.js:52-77)                     *)
(***************************************************************************)
DetailsKeyRequiredMessage ==
  Message("ALTMETRIC_DETAILS_API_KEY is required for Details Page API calls")

\* What URLSearchParams.append stores for a value: its String() form, which
\* for an array is its elements joined by commas.
URLString(v) == IF IsArray(v) THEN Join(v.a, <<",">>) ELSE StringOf(v)

\* lines 61-64: what one entry of params appends to url.searchParams
DetailsEntryParams(key, value) ==
  IF value # Undefined /\ value # Null
  THEN <<Param(key, Str(URLString(value)))>>
  ELSE <<>>

RECURSIVE AppendParams(_, _)
\* lines 60-65: Object.entries(params).forEach(...)
AppendParams(params, entries) ==
  IF Len(entries) = 0 THEN params
  ELSE AppendParams(params \o DetailsEntryParams(Head(entries).key,
                                                 Head(entries).value),
                    Tail(entries))

\* Variant: the request is built before the key is looked at.
makeDetailsApiRequest_KeyUnchecked(paramsArg, apiKey) ==
  LET params == IF paramsArg = Undefined THEN Obj(<<>>) ELSE paramsArg
  IN IF ~IsObject(params)
     THEN [settled |-> Throw(TypeError(Message("Cannot convert undefined or null to object"))),
           url |-> <<Param(KeyName, Str(URLString(apiKey)))>>]
     ELSE [settled |-> NoResult,
           url |-> AppendParams(<<Param(KeyName, Str(URLString(apiKey)))>>,
                                params.entries)]

\* lines 52-67: the synchronous part of the call, up to the first await.
\* `settled` is the rejection when the call fails before fetch is reached.
makeDetailsApiRequest(paramsArg, apiKey) ==
  LET params == IF paramsArg = Undefined THEN Obj(<<>>) ELSE paramsArg
  IN IF ~Truthy(apiKey)
     THEN [settled |-> Throw(Error(DetailsKeyRequiredMessage)), url |-> <<>>]
     ELSE IF ~IsObject(params)
     THEN [settled |-> Throw(TypeError(Message("Cannot convert undefined or null to object"))),
           url |-> <<Param(KeyName, apiKey)>>]
     ELSE [settled |-> NoResult,
           url |-> AppendParams(<<Param(KeyName, apiKey)>>, params.entries)]

(***************************************************************************)
(* The explored inputs.                                                    *)
(***************************************************************************)
ORDER == <<"o", "r", "d", "e", "r">>
PAGE_NUMBER == <<"p", "a", "g", "e", "[", "n", "u", "m", "b", "e", "r", "]">>
PAGE_SIZE == <<"p", "a", "g", "e", "[", "s", "i", "z", "e", "]">>

PlainKeys == {<<"a">>, <<"b">>}
ReservedKeys == {ORDER, PAGE_NUMBER, PAGE_SIZE}
AllKeys == PlainKeys \cup ReservedKeys

\* scalar filter values: a string that is also a key name, a string holding
\* the separator, a number of more than one digit
Scalars == {Str(<<"b">>), Str(<<"b", "|", "b">>), Num(10)}

ElemsOf(list) == {list[i] : i \in 1..Len(list)}

RECURSIVE ListsOfLen(_)
\* the lists of n different scalars, in every order
ListsOfLen(n) ==
  IF n = 0 THEN {<<>>}
  ELSE UNION { {Append(l, e) : e \in Scalars \ ElemsOf(l)}
               : l \in ListsOfLen(n - 1) }

Lists == UNION {ListsOfLen(n) : n \in 0..MaxListLen}

ValuesFor(key) ==
  IF key = ORDER THEN {Str(<<"b">>), Undefined}
  ELSE IF key \in ReservedKeys THEN {Num(2)}
  ELSE Scalars \cup {Null, Undefined} \cup {Arr(l) : l \in Lists}

KeysOf(entries) == {entries[i].key : i \in 1..Len(entries)}

RECURSIVE EntriesOfLen(_)
\* every insertion order of every choice of distinct keys
EntriesOfLen(n) ==
  IF n = 0 THEN {<<>>}
  ELSE UNION { UNION { {Append(es, Entry(k, v)) : v \in ValuesFor(k)}
                       : k \in AllKeys \ KeysOf(es) }
               : es \in EntriesOfLen(n - 1) }

FilterSets == {Obj(es) : es \in UNION {EntriesOfLen(n) : n \in 0..MaxKeys}}

\* filters with the numeric-looking keys '9' and '10', alone or with 'a',
\* created in every order
IndexKeySets ==
  LET nine == {Entry(<<"9">>, v) : v \in {Str(<<"b">>), Num(10)}}
      ten == Entry(<<"1", "0">>, Str(<<"b">>))
      a == Entry(<<"a">>, Str(<<"b">>))
  IN {Obj(OwnPropertyOrder(es)) :
        es \in UNION { {<<n, ten>>, <<ten, n>>, <<a, n, ten>>, <<ten, a, n>>,
                        <<ten, n, a>>} : n \in nine }}

\* filters with an integer as a scalar value, as a list element, and next
\* to a string-valued filter
NumberFilterSets ==
  UNION { { Obj(<<Entry(<<"a">>, Num(n))>>),
            Obj(<<Entry(<<"a">>, Arr(<<Str(<<"b">>), Num(n)>>))>>),
            Obj(<<Entry(<<"b">>, Str(<<"b">>)), Entry(<<"a">>, Num(n))>>) }
          : n \in (-MaxNumber)..MaxNumber }

\* what a caller may pass as `filters`: a FilterSet, or no object at all
FilterInputs == FilterSets \cup IndexKeySets \cup {Null, Undefined}

RECURSIVE Repeat(_, _)
Repeat(c, n) == IF n = 0 THEN <<>> ELSE Append(Repeat(c, n - 1), c)

\* absent, empty, one character, the lengths next to the minimum, a longer one
Secrets ==
  {Undefined} \cup
  {Str(Repeat("s", n)) :
     n \in {0, 1, MinSecretLength - 1, MinSecretLength, MaxSecretLen}}

\* the secrets requests are made with: absent, one too short, the shortest valid
RequestSecrets ==
  {Undefined, Str(Repeat("s", MinSecretLength - 1)),
   Str(Repeat("s", MinSecretLength))}

ApiKeys == {Undefined, Null, Str(<<>>), Str(<<"k", "1">>)}

\* the params makeDetailsApiRequest is called with: those of the inputs
\* with at most MaxDetailsKeys entries
DetailsParams(f) == IsObject(f) => Len(f.entries) <= MaxDetailsKeys

\* what the remote service may answer
Responses ==
  { [ok |-> TRUE, status |-> 200, body |-> "{\"data\":[]}"],
    [ok |-> FALSE, status |-> 401, body |-> "Unauthorized"],
    [ok |-> FALSE, status |-> 404, body |-> "Not Found"] }

NoResponse == [ok |-> FALSE, status |-> 0, body |-> ""]

(***************************************************************************)
(* lib/validators.js: validateIdentifier (lines 16-88).                    *)
(***************************************************************************)
\* /^\d+$/.test(s): one or more characters, all of them decimal digits
OnlyDigits(s) ==
  /\ Len(s) > 0
  /\ \A i \in 1..Len(s) : \E d \in 1..Len(DigitChars) : s[i] = DigitChars[d]

\* the message of a format error: the template literal's text, the
\* interpolated identifier and the text after it
FormatMessage(text, identifier, tail) ==
  [text |-> text, identifier |-> StringOf(identifier), tail |-> tail]

ID == <<"i", "d">>

\* lines 23-83: the types checked with an identifiers-* library, in the
\* order of the if statements, each with the texts of its error message
LibraryChecks ==
  << [type |-> <<"d", "o", "i">>, library |-> "identifiers-doi",
      text |-> "Invalid DOI format: ", tail |-> ""],
     [type |-> <<"p", "m", "i", "d">>, library |-> "identifiers-pubmed",
      text |-> "Invalid PubMed ID format: ", tail |-> ""],
     [type |-> <<"a", "r", "x", "i", "v">>, library |-> "identifiers-arxiv",
      text |-> "Invalid arXiv ID format: ", tail |-> ""],
     [type |-> <<"a", "d", "s">>, library |-> "identifiers-bibcode",
      text |-> "Invalid ADS Bibcode format: ", tail |-> ""],
     [type |-> <<"h", "a", "n", "d", "l", "e">>, library |-> "identifiers-handle",
      text |-> "Invalid Handle format: ", tail |-> ""],
     [type |-> <<"n", "c", "t", "_", "i", "d">>, library |-> "identifiers-nct",
      text |-> "Invalid NCT ID format: ",
      tail |-> ". Expected format: NCT########"],
     [type |-> <<"r", "e", "p", "e", "c">>, library |-> "identifiers-repec",
      text |-> "Invalid RePEc ID format: ", tail |-> ""],
     [type |-> <<"u", "r", "n">>, library |-> "identifiers-urn",
      text |-> "Invalid URN format: ", tail |-> ""] >>

\* the if statements of lines 23-83 whose condition identifier_type === '...'
\* holds
ChecksFor(identifier_type) ==
  SelectSeq(LibraryChecks, LAMBDA c : identifier_type = Str(c.type))

\* !extracted || extracted.length === 0, for what extract(identifier) returned
NothingExtracted(extracted) == ~Truthy(extracted) \/ Len(extracted.a) = 0

\* Variant: the Altmetric ID check accepts the empty string (\d* for \d+).
validateIdentifier_EmptyId(identifier, identifier_type, extracted) ==
  IF /\ identifier_type = Str(ID)
     /\ ~OnlyDigits(StringOf(identifier))
     /\ StringOf(identifier) # <<>>
  THEN Throw(Error(FormatMessage("Invalid Altmetric ID format: ", identifier,
                                 ". Must be numeric.")))
  ELSE LET checks == ChecksFor(identifier_type)
       IN IF Len(checks) > 0 /\ NothingExtracted(extracted)
          THEN Throw(Error(FormatMessage(checks[1].text, identifier,
                                         checks[1].tail)))
          ELSE Return(Undefined)

\* lines 16-88: validateIdentifier(identifier, identifier_type), where
\* `extracted` is what the identifiers-* library of the type returns for the
\* identifier
validateIdentifier(identifier, identifier_type, extracted) ==
  IF identifier_type = Str(ID) /\ ~OnlyDigits(StringOf(identifier))
  THEN Throw(Error(FormatMessage("Invalid Altmetric ID format: ", identifier,
                                 ". Must be numeric.")))
  ELSE LET checks == ChecksFor(identifier_type)
       IN IF Len(checks) > 0 /\ NothingExtracted(extracted)
          THEN Throw(Error(FormatMessage(checks[1].text, identifier,
                                         checks[1].tail)))
          ELSE Return(Undefined)

(***************************************************************************)
(* index.js (held in src/lib/validators.js:91-194): configuration.         *)
(***************************************************************************)
\* lines 101, 105, 106: the environment variables index.js reads
Env(detailsKey, explorerKey, explorerSecret) ==
  [ALTMETRIC_DETAILS_API_KEY |-> detailsKey,
   ALTMETRIC_EXPLORER_API_KEY |-> explorerKey,
   ALTMETRIC_EXPLORER_API_SECRET |-> explorerSecret]

\* line 110: !!DETAILS_API_KEY
hasDetailsApi(e) == Truthy(e.ALTMETRIC_DETAILS_API_KEY)

\* Variant: the Explorer API counts as configured only with a secret the
\* digest accepts.
hasExplorerApi_SecretChecked(e) ==
  /\ Truthy(e.ALTMETRIC_EXPLORER_API_KEY)
  /\ ~SecretRejected(e.ALTMETRIC_EXPLORER_API_SECRET)

\* Variant: the Explorer API counts as configured with its key alone.
hasExplorerApi_KeyOnly(e) == Truthy(e.ALTMETRIC_EXPLORER_API_KEY)

\* line 111: !!(EXPLORER_API_KEY && EXPLORER_API_SECRET)
hasExplorerApi(e) ==
  Truthy(e.ALTMETRIC_EXPLORER_API_KEY) /\ Truthy(e.ALTMETRIC_EXPLORER_API_SECRET)

\* lines 114-123: what console.error writes before process.exit(1)
ConfigurationErrorLines ==
  << [text |-> "Error: At least one API configuration is required"],
     [text |-> "Please configure either:"],
     [text |-> "  1. Details Page API: ALTMETRIC_DETAILS_API_KEY"],
     [text |-> "  2. Explorer API: ALTMETRIC_EXPLORER_API_KEY and ALTMETRIC_EXPLORER_API_SECRET"],
     [text |-> ""],
     [text |-> "Set these in:"],
     [text |-> "  - A .env file in the project root, or"],
     [text |-> "  - Environment variables"],
     [text |-> ""],
     [text |-> "Get API credentials at: https://www.altmetric.com/solutions/altmetric-api/"] >>

\* line 188
RunningLine == [text |-> "Altmetric MCP Server running on stdio"]

\* line 192: console.error('Fatal error:', error)
FatalErrorLine(error) == [text |-> "Fatal error:", error |-> error]

\* lines 128-134: the config createTools is called with
Config(e) ==
  [detailsApiKey |-> e.ALTMETRIC_DETAILS_API_KEY,
   explorerApiKey |-> e.ALTMETRIC_EXPLORER_API_KEY,
   explorerApiSecret |-> e.ALTMETRIC_EXPLORER_API_SECRET]

\* the server process: where the top level of index.js stands, the codes
\* process.exit was called with, whether createTools and connect were done
Process(at, exits, toolsCreated, connected) ==
  [at |-> at, exits |-> exits, toolsCreated |-> toolsCreated,
   connected |-> connected]

(***************************************************************************)
(* lib/tools.js (held in src/unnamed/part_001): the tool handlers.         *)
(***************************************************************************)
\* the names createTools registers (lines 24-629)
tools ==
  {"get_citation_counts", "get_citation_details", "search_citations",
   "explore_research_outputs", "explore_attention_summary",
   "explore_mentions", "explore_demographics", "explore_mention_sources",
   "explore_journals"}

\* lines 278-291 of explore_research_outputs: `if (arg) filters[key] = arg`,
\* as pairs <<arg, key>> in the order of the statements
ExploreResearchOutputsArgs ==
  <<
     << <<"q">>,
        <<"q">> >>,
     << <<"s", "c", "o", "p", "e">>,
        <<"s", "c", "o", "p", "e">> >>,
     << <<"t", "i", "t", "l", "e">>,
        <<"t", "i", "t", "l", "e">> >>,
     << <<"p", "u", "b", "l", "i", "s", "h", "e", "d", "_", "a", "f", "t", "e", "r">>,
        <<"p", "u", "b", "l", "i", "s", "h", "e", "d", "_", "a", "f", "t", "e", "r">> >>,
     << <<"p", "u", "b", "l", "i", "s", "h", "e", "d", "_", "b", "e", "f", "o", "r", "e">>,
        <<"p", "u", "b", "l", "i", "s", "h", "e", "d", "_", "b", "e", "f", "o", "r", "e">> >>,
     << <<"t", "i", "m", "e", "f", "r", "a", "m", "e">>,
        <<"t", "i", "m", "e", "f", "r", "a", "m", "e">> >>,
     << <<"o", "r", "c", "i", "d">>,
        <<"o", "r", "c", "i", "d">> >>,
     << <<"t", "y", "p", "e">>,
        <<"t", "y", "p", "e">> >>,
     << <<"j", "o", "u", "r", "n", "a", "l", "_", "i", "d">>,
        <<"j", "o", "u", "r", "n", "a", "l", "_", "i", "d">> >>,
     << <<"a", "u", "t", "h", "o", "r", "_", "i", "d">>,
        <<"a", "u", "t", "h", "o", "r", "_", "i", "d">> >>,
     << <<"d", "e", "p", "a", "r", "t", "m", "e", "n", "t", "_", "i", "d">>,
        <<"d", "e", "p", "a", "r", "t", "m", "e", "n", "t", "_", "i", "d">> >>,
     << <<"o", "r", "d", "e", "r">>,
        <<"o", "r", "d", "e", "r">> >>,
     << <<"p", "a", "g", "e", "_", "n", "u", "m", "b", "e", "r">>,
        <<"p", "a", "g", "e", "[", "n", "u", "m", "b", "e", "r", "]">> >>,
     << <<"p", "a", "g", "e", "_", "s", "i", "z", "e">>,
        <<"p", "a", "g", "e", "[", "s", "i", "z", "e", "]">> >> >>

\* Variant: search_citations sends subject under its own name.
SearchCitationsArgs_SubjectKept ==
  << <<<<"c", "i", "t", "a", "t", "i", "o", "n", "_", "t", "y", "p", "e">>, <<"c", "i", "t", "a", "t", "i", "o", "n", "_", "t", "y", "p", "e">>>>,
     <<<<"n", "l", "m", "i", "d">>, <<"n", "l", "m", "i", "d">>>>,
     <<<<"i", "s", "s", "n", "s">>, <<"i", "s", "s", "n", "s">>>>,
     <<<<"s", "u", "b", "j", "e", "c", "t">>, <<"s", "u", "b", "j", "e", "c", "t">>>>,
     <<<<"n", "u", "m", "_", "r", "e", "s", "u", "l", "t", "s">>, <<"n", "u", "m", "_", "r", "e", "s", "u", "l", "t", "s">>>>,
     <<<<"p", "a", "g", "e">>, <<"p", "a", "g", "e">>>> >>

\* lines 176-181 of search_citations: `if (arg) params[key] = arg`
SearchCitationsArgs ==
  <<
     << <<"c", "i", "t", "a", "t", "i", "o", "n", "_", "t", "y", "p", "e">>,
        <<"c", "i", "t", "a", "t", "i", "o", "n", "_", "t", "y", "p", "e">> >>,
     << <<"n", "l", "m", "i", "d">>,
        <<"n", "l", "m", "i", "d">> >>,
     << <<"i", "s", "s", "n", "s">>,
        <<"i", "s", "s", "n", "s">> >>,
     << <<"s", "u", "b", "j", "e", "c", "t">>,
        <<"s", "c", "o", "p", "u", "s", "_", "s", "u", "b", "j", "e", "c", "t", "s">> >>,
     << <<"n", "u", "m", "_", "r", "e", "s", "u", "l", "t", "s">>,
        <<"n", "u", "m", "_", "r", "e", "s", "u", "l", "t", "s">> >>,
     << <<"p", "a", "g", "e">>,
        <<"p", "a", "g", "e">> >> >>

\* line 52 of get_citation_counts: the params object is {}
GetCitationCountsArgs == <<>>

\* lines 110-113 of get_citation_details
GetCitationDetailsArgs ==
  <<
     << <<"i", "n", "c", "l", "u", "d", "e", "_", "s", "o", "u", "r", "c", "e", "s">>,
        <<"i", "n", "c", "l", "u", "d", "e", "_", "s", "o", "u", "r", "c", "e", "s">> >>,
     << <<"e", "x", "c", "l", "u", "d", "e", "_", "s", "o", "u", "r", "c", "e", "s">>,
        <<"e", "x", "c", "l", "u", "d", "e", "_", "s", "o", "u", "r", "c", "e", "s">> >>,
     << <<"p", "o", "s", "t", "_", "t", "y", "p", "e", "s">>,
        <<"p", "o", "s", "t", "_", "t", "y", "p", "e", "s">> >>,
     << <<"i", "n", "c", "l", "u", "d", "e", "_", "s", "e", "c", "t", "i", "o", "n", "s">>,
        <<"i", "n", "c", "l", "u", "d", "e", "_", "s", "e", "c", "t", "i", "o", "n", "s">> >> >>

\* lines 363-370 of explore_attention_summary
ExploreAttentionSummaryArgs ==
  <<
     << <<"q">>,
        <<"q">> >>,
     << <<"s", "c", "o", "p", "e">>,
        <<"s", "c", "o", "p", "e">> >>,
     << <<"p", "u", "b", "l", "i", "s", "h", "e", "d", "_", "a", "f", "t", "e", "r">>,
        <<"p", "u", "b", "l", "i", "s", "h", "e", "d", "_", "a", "f", "t", "e", "r">> >>,
     << <<"p", "u", "b", "l", "i", "s", "h", "e", "d", "_", "b", "e", "f", "o", "r", "e">>,
        <<"p", "u", "b", "l", "i", "s", "h", "e", "d", "_", "b", "e", "f", "o", "r", "e">> >>,
     << <<"t", "i", "m", "e", "f", "r", "a", "m", "e">>,
        <<"t", "i", "m", "e", "f", "r", "a", "m", "e">> >>,
     << <<"t", "y", "p", "e">>,
        <<"t", "y", "p", "e">> >>,
     << <<"j", "o", "u", "r", "n", "a", "l", "_", "i", "d">>,
        <<"j", "o", "u", "r", "n", "a", "l", "_", "i", "d">> >>,
     << <<"a", "u", "t", "h", "o", "r", "_", "i", "d">>,
        <<"a", "u", "t", "h", "o", "r", "_", "i", "d">> >> >>

\* lines 445-453 of explore_mentions
ExploreMentionsArgs ==
  <<
     << <<"q">>,
        <<"q">> >>,
     << <<"s", "c", "o", "p", "e">>,
        <<"s", "c", "o", "p", "e">> >>,
     << <<"m", "e", "n", "t", "i", "o", "n", "e", "d", "_", "a", "f", "t", "e", "r">>,
        <<"m", "e", "n", "t", "i", "o", "n", "e", "d", "_", "a", "f", "t", "e", "r">> >>,
     << <<"m", "e", "n", "t", "i", "o", "n", "e", "d", "_", "b", "e", "f", "o", "r", "e">>,
        <<"m", "e", "n", "t", "i", "o", "n", "e", "d", "_", "b", "e", "f", "o", "r", "e">> >>,
     << <<"c", "o", "u", "n", "t", "r", "i", "e", "s">>,
        <<"c", "o", "u", "n", "t", "r", "i", "e", "s">> >>,
     << <<"t", "i", "m", "e", "f", "r", "a", "m", "e">>,
        <<"t", "i", "m", "e", "f", "r", "a", "m", "e">> >>,
     << <<"t", "y", "p", "e">>,
        <<"t", "y", "p", "e">> >>,
     << <<"p", "a", "g", "e", "_", "n", "u", "m", "b", "e", "r">>,
        <<"p", "a", "g", "e", "[", "n", "u", "m", "b", "e", "r", "]">> >>,
     << <<"p", "a", "g", "e", "_", "s", "i", "z", "e">>,
        <<"p", "a", "g", "e", "[", "s", "i", "z", "e", "]">> >> >>

\* lines 525-532 of explore_demographics
ExploreDemographicsArgs ==
  <<
     << <<"q">>,
        <<"q">> >>,
     << <<"s", "c", "o", "p", "e">>,
        <<"s", "c", "o", "p", "e">> >>,
     << <<"p", "u", "b", "l", "i", "s", "h", "e", "d", "_", "a", "f", "t", "e", "r">>,
        <<"p", "u", "b", "l", "i", "s", "h", "e", "d", "_", "a", "f", "t", "e", "r">> >>,
     << <<"p", "u", "b", "l", "i", "s", "h", "e", "d", "_", "b", "e", "f", "o", "r", "e">>,
        <<"p", "u", "b", "l", "i", "s", "h", "e", "d", "_", "b", "e", "f", "o", "r", "e">> >>,
     << <<"t", "i", "m", "e", "f", "r", "a", "m", "e">>,
        <<"t", "i", "m", "e", "f", "r", "a", "m", "e">> >>,
     << <<"t", "y", "p", "e">>,
        <<"t", "y", "p", "e">> >>,
     << <<"j", "o", "u", "r", "n", "a", "l", "_", "i", "d">>,
        <<"j", "o", "u", "r", "n", "a", "l", "_", "i", "d">> >>,
     << <<"a", "u", "t", "h", "o", "r", "_", "i", "d">>,
        <<"a", "u", "t", "h", "o", "r", "_", "i", "d">> >> >>

\* lines 607-615 of explore_mention_sources
ExploreMentionSourcesArgs ==
  <<
     << <<"q">>,
        <<"q">> >>,
     << <<"s", "c", "o", "p", "e">>,
        <<"s", "c", "o", "p", "e">> >>,
     << <<"m", "e", "n", "t", "i", "o", "n", "e", "d", "_", "a", "f", "t", "e", "r">>,
        <<"m", "e", "n", "t", "i", "o", "n", "e", "d", "_", "a", "f", "t", "e", "r">> >>,
     << <<"m", "e", "n", "t", "i", "o", "n", "e", "d", "_", "b", "e", "f", "o", "r", "e">>,
        <<"m", "e", "n", "t", "i", "o", "n", "e", "d", "_", "b", "e", "f", "o", "r", "e">> >>,
     << <<"t", "i", "m", "e", "f", "r", "a", "m", "e">>,
        <<"t", "i", "m", "e", "f", "r", "a", "m", "e">> >>,
     << <<"s", "o", "u", "r", "c", "e", "_", "t", "y", "p", "e">>,
        <<"s", "o", "u", "r", "c", "e", "_", "t", "y", "p", "e">> >>,
     << <<"c", "o", "u", "n", "t", "r", "i", "e", "s">>,
        <<"c", "o", "u", "n", "t", "r", "i", "e", "s">> >>,
     << <<"p", "a", "g", "e", "_", "n", "u", "m", "b", "e", "r">>,
        <<"p", "a", "g", "e", "[", "n", "u", "m", "b", "e", "r", "]">> >>,
     << <<"p", "a", "g", "e", "_", "s", "i", "z", "e">>,
        <<"p", "a", "g", "e", "[", "s", "i", "z", "e", "]">> >> >>

\* lines 686-693 of explore_journals
ExploreJournalsArgs ==
  <<
     << <<"q">>,
        <<"q">> >>,
     << <<"j", "o", "u", "r", "n", "a", "l", "_", "i", "d">>,
        <<"j", "o", "u", "r", "n", "a", "l", "_", "i", "d">> >>,
     << <<"i", "s", "s", "n">>,
        <<"i", "s", "s", "n">> >>,
     << <<"s", "u", "b", "j", "e", "c", "t">>,
        <<"s", "u", "b", "j", "e", "c", "t">> >>,
     << <<"p", "u", "b", "l", "i", "s", "h", "e", "r">>,
        <<"p", "u", "b", "l", "i", "s", "h", "e", "r">> >>,
     << <<"o", "r", "d", "e", "r">>,
        <<"o", "r", "d", "e", "r">> >>,
     << <<"p", "a", "g", "e", "_", "n", "u", "m", "b", "e", "r">>,
        <<"p", "a", "g", "e", "[", "n", "u", "m", "b", "e", "r", "]">> >>,
     << <<"p", "a", "g", "e", "_", "s", "i", "z", "e">>,
        <<"p", "a", "g", "e", "[", "s", "i", "z", "e", "]">> >> >>

\* the `if (arg) target[key] = arg` statements of the handler of a tool
HandlerArgs(name) ==
  CASE name = "get_citation_counts" -> GetCitationCountsArgs
    [] name = "get_citation_details" -> GetCitationDetailsArgs
    [] name = "search_citations" -> SearchCitationsArgs
    [] name = "explore_research_outputs" -> ExploreResearchOutputsArgs
    [] name = "explore_attention_summary" -> ExploreAttentionSummaryArgs
    [] name = "explore_mentions" -> ExploreMentionsArgs
    [] name = "explore_demographics" -> ExploreDemographicsArgs
    [] name = "explore_mention_sources" -> ExploreMentionSourcesArgs
    [] name = "explore_journals" -> ExploreJournalsArgs
    [] OTHER -> <<>>

\* the tools of the Details Page API, and those that validate an identifier
DetailsTools ==
  {"get_citation_counts", "get_citation_details", "search_citations"}
IdentifierTools == {"get_citation_counts", "get_citation_details"}

RECURSIVE SetTruthy(_, _, _)
\* the `if (arg) target[key] = arg` statements of a handler, in order
SetTruthy(args, pairs, acc) ==
  IF Len(pairs) = 0 THEN acc
  ELSE LET value == Get(args, Head(pairs)[1])
       IN SetTruthy(args, Tail(pairs),
                    IF Truthy(value)
                    THEN Append(acc, Entry(Head(pairs)[2], value))
                    ELSE acc)

\* the filters (lines 276-291) or params (lines 175-181) object a handler
\* builds from its arguments
HandlerFilters(name, args) == Obj(SetTruthy(args, HandlerArgs(name), <<>>))

\* lines 293 and 183: the request the handler makes with that object, up to
\* the await on fetch
HandlerRequest(name, filters, config) ==
  IF name \notin DetailsTools
  THEN LET request == makeExplorerApiRequest(filters, config.explorerApiKey,
                                             config.explorerApiSecret)
       IN [settled |-> request.settled, url |-> request.url]
  ELSE makeDetailsApiRequest(filters, config.detailsApiKey)

\* lines 293-300 and 184-191: the result of a handler whose request resolved
TextResult(data) ==
  [content |-> <<[type |-> "text", text |-> [stringified |-> data]]>>]

(***************************************************************************)
(* index.js: the tools/call request handler (lines 157-181).               *)
(***************************************************************************)
\* the names every object literal inherits from Object.prototype
ObjectPrototypeNames ==
  {"constructor", "hasOwnProperty", "isPrototypeOf", "propertyIsEnumerable",
   "toLocaleString", "toString", "valueOf", "__proto__", "__defineGetter__",
   "__defineSetter__", "__lookupGetter__", "__lookupSetter__"}

\* line 160: tools[name], where tools is the object literal createTools
\* returns: a registered tool, a member of Object.prototype, or undefined
Lookup(name) ==
  IF name \in tools THEN [t |-> "tool", name |-> name]
  ELSE IF name \in ObjectPrototypeNames
  THEN [t |-> "inherited", name |-> name]
  ELSE Undefined

\* line 166: tool.handler(args) when tool has no handler property
HandlerNotAFunction == TypeError(Message("tool.handler is not a function"))

\* line 162
UnknownTool(name) == Error([text |-> "Unknown tool: ", name |-> name])

\* line 169: console.error(`Tool ${name} error:`, error)
ToolErrorLine(name, error) ==
  [text |-> "Tool error:", name |-> name, error |-> error]

\* lines 171-179: error.message || 'Unknown error' in an error result
ErrorResult(error) ==
  [content |->
     <<[type |-> "text",
        text |-> [text |-> "Error executing tool: ",
                  message |-> IF error.message = Message("")
                              THEN Message("Unknown error")
                              ELSE error.message]]>>,
   isError |-> TRUE]

\* One tools/call request: the tool, its arguments, the object its handler
\* built, where the handler stands, the URL it fetched, the response it got
\* and the completion of the request handler.
Call(name, args, filters, pc, url, response, result) ==
  [name |-> name, args |-> args, filters |-> filters, pc |-> pc, url |-> url,
   response |-> response, result |-> result]

\* lines 157-181 and the handler up to its first await that leaves the
\* event loop: the call as it then stands, the console.error lines written
\* and the URLs handed to fetch
CallToolRequest(name, args, filters, config) ==
  IF ~Truthy(Lookup(name))
  THEN [call |-> Call(name, args, Obj(<<>>), "done", <<>>, NoResponse,
                      Throw(UnknownTool(name))),
        lines |-> <<>>, fetch |-> <<>>]
  ELSE IF name \notin tools
  THEN [call |-> Call(name, args, Obj(<<>>), "done", <<>>, NoResponse,
                      Return(ErrorResult(HandlerNotAFunction))),
        lines |-> <<ToolErrorLine(name, HandlerNotAFunction)>>,
        fetch |-> <<>>]
  ELSE LET request == HandlerRequest(name, filters, config)
       IN IF request.settled.kind = "throw"
          THEN [call |-> Call(name, args, filters, "done", <<>>, NoResponse,
                              Return(ErrorResult(request.settled.error))),
                lines |-> <<ToolErrorLine(name, request.settled.error)>>,
                fetch |-> <<>>]
          ELSE [call |-> Call(name, args, filters, "await_fetch", request.url,
                              NoResponse, NoResult),
                lines |-> <<>>, fetch |-> <<request.url>>]

IDENTIFIER == <<"i", "d", "e", "n", "t", "i", "f", "i", "e", "r">>
IDENTIFIER_TYPE == <<"i", "d", "e", "n", "t", "i", "f", "i", "e", "r", "_", "t", "y", "p", "e">>

\* part_001 lines 49 and 105: `identifier_type = 'doi'` in the destructuring
\* of args gives the default for a missing or undefined property only
IdentifierTypeOf(args) ==
  IF Get(args, IDENTIFIER_TYPE) = Undefined THEN Str(<<"d", "o", "i">>)
  ELSE Get(args, IDENTIFIER_TYPE)

\* part_001 lines 50 and 106: the handler's call of validateIdentifier
HandlerValidation(args, extracted) ==
  validateIdentifier(Get(args, IDENTIFIER), IdentifierTypeOf(args), extracted)

\* the call of a handler that failed before it built its params object
FailedEarly(name, args, error) ==
  [call |-> Call(name, args, Obj(<<>>), "done", <<>>, NoResponse,
                 Return(ErrorResult(error))),
   lines |-> <<ToolErrorLine(name, error)>>, fetch |-> <<>>]

\* Variant: get_citation_counts and get_citation_details look at the API
\* key before they validate the identifier.
HandleToolCall_KeyFirst(name, args, config, extracted) ==
  IF name \in IdentifierTools /\ ~Truthy(config.detailsApiKey)
  THEN FailedEarly(name, args, Error(DetailsKeyRequiredMessage))
  ELSE IF /\ name \in IdentifierTools
          /\ HandlerValidation(args, extracted).kind = "throw"
  THEN FailedEarly(name, args, HandlerValidation(args, extracted).error)
  ELSE CallToolRequest(name, args, HandlerFilters(name, args), config)

\* index.js lines 157-181 with the whole handler (part_001 lines 48-61,
\* 104-125, 171-193, 269-302, ...) up to its await on fetch: the identifier
\* is validated first where the tool has one, then the params or filters
\* object is built and the request made
HandleToolCall(name, args, config, extracted) ==
  IF /\ name \in IdentifierTools
     /\ HandlerValidation(args, extracted).kind = "throw"
  THEN FailedEarly(name, args, HandlerValidation(args, extracted).error)
  ELSE CallToolRequest(name, args, HandlerFilters(name, args), config)

\* index.js lines 150-154: Object.values(tools).map((tool) => tool.definition),
\* as the names of the definitions in the order createTools lists them
ListedTools ==
  <<"get_citation_counts", "get_citation_details", "search_citations",
    "explore_research_outputs", "explore_attention_summary",
    "explore_mentions", "explore_demographics", "explore_mention_sources",
    "explore_journals">>

(***************************************************************************)
(* The explored configurations and tool calls.                             *)
(***************************************************************************)
MaxCalls == 2         \* tools/call requests received by one server process

\* a variable of process.env: unset, empty, or set
EnvKeys == {Undefined, Str(<<>>), Str(<<"k", "1">>)}
\* the secret: unset, empty, one too short, the shortest valid
EnvSecrets ==
  {Undefined, Str(<<>>), Str(Repeat("s", MinSecretLength - 1)),
   Str(Repeat("s", MinSecretLength))}
Envs == {Env(d, k, s) : d \in EnvKeys, k \in EnvKeys, s \in EnvSecrets}

\* the environment while only api-client.js is exercised
NoEnv == Env(Undefined, Undefined, Undefined)

\* arguments of explore_research_outputs: none, a query and a page
ExplorerArgs ==
  { Obj(<<>>),
    Obj(<<Entry(<<"q">>, Str(<<"a">>)),
          Entry(<<"p", "a", "g", "e", "_", "n", "u", "m", "b", "e", "r">>,
                Num(2))>>) }

\* arguments of search_citations: a subject
DetailsArgs ==
  { Obj(<<Entry(<<"s", "u", "b", "j", "e", "c", "t">>, Str(<<"a">>))>>) }

\* what the remote service answers to a tool's request: success, not found
ServerResponses == {r \in Responses : r.status \in {200, 404}}

\* the tools/call requests a client sends, one of them for an unknown name
ToolCalls ==
  {[name |-> "explore_research_outputs", args |-> a] : a \in ExplorerArgs}
    \cup {[name |-> "search_citations", args |-> a] : a \in DetailsArgs}
    \cup {[name |-> "no_such_tool", args |-> Obj(<<>>)]}

\* identifiers: absent, empty, digits, digits with a letter or a hyphen, a
\* DOI-like string
Identifiers ==
  {Undefined, Str(<<>>), Str(<<"1">>), Str(<<"1", "2", "0">>), Str(<<"a", "1">>),
   Str(<<"1", "-", "2">>), Str(<<"1", "0", ".", "1", "/", "a">>)}

\* the identifier types of the tools' schemas (part_001 line 40)
CheckedTypes ==
  {<<"i", "d">>, <<"d", "o", "i">>, <<"p", "m", "i", "d">>, <<"a", "r", "x", "i", "v">>, <<"a", "d", "s">>, <<"h", "a", "n", "d", "l", "e">>,
   <<"n", "c", "t", "_", "i", "d">>, <<"r", "e", "p", "e", "c">>, <<"u", "r", "n">>}
UncheckedTypes ==
  {<<"u", "r", "i">>, <<"i", "s", "b", "n">>, <<"s", "s", "r", "n">>,
   <<"d", "i", "m", "e", "n", "s", "i", "o", "n", "s", "_", "p", "u", "b", "l", "i", "c", "a", "t", "i", "o", "n", "_", "i", "d">>}

\* identifier types: those of the schemas, one outside them, none
IdentifierTypes ==
  {Str(t) : t \in CheckedTypes \cup UncheckedTypes \cup {<<"x">>}}
    \cup {Undefined}

\* what extract(identifier) of an identifiers-* library returns: nothing, no
\* match, one match
Extractions == {Null, Arr(<<>>), Arr(<<Str(<<"1">>)>>)}

\* one argument, two arguments
Args1(k, v) == Obj(<<Entry(k, v)>>)
Args2(k, v, l, w) == Obj(<<Entry(k, v), Entry(l, w)>>)

\* arguments tried with explore_research_outputs: none, a query and a page,
\* page 0, an empty query, a null query, size 0 next to a query
ExploreInvocationArgs ==
  { Obj(<<>>),
    Args2(<<"q">>, Str(<<"a">>), <<"p", "a", "g", "e", "_", "n", "u", "m", "b", "e", "r">>, Num(2)),
    Args1(<<"p", "a", "g", "e", "_", "n", "u", "m", "b", "e", "r">>, Num(0)),
    Args1(<<"q">>, Str(<<>>)),
    Args1(<<"q">>, Null),
    Args2(<<"q">>, Str(<<"a">>), <<"p", "a", "g", "e", "_", "s", "i", "z", "e">>, Num(0)) }

\* arguments tried with search_citations (timeframe goes into the path)
SearchInvocationArgs ==
  { Obj(<<>>),
    Args1(<<"s", "u", "b", "j", "e", "c", "t">>, Str(<<"a">>)),
    Args2(<<"s", "u", "b", "j", "e", "c", "t">>, Str(<<"a">>), <<"p", "a", "g", "e">>, Num(2)),
    Args1(<<"n", "u", "m", "_", "r", "e", "s", "u", "l", "t", "s">>, Num(0)),
    Args1(<<"s", "u", "b", "j", "e", "c", "t">>, Null) }

\* arguments tried with get_citation_counts and get_citation_details: an
\* identifier alone or with a type, a source list or a citation type
IdentifierInvocationArgs ==
  {Args1(IDENTIFIER, i) : i \in {Str(<<"1", "0", ".", "1", "/", "a">>), Str(<<"a", "1">>)}}
    \cup {Args2(IDENTIFIER, i, IDENTIFIER_TYPE, Str(t)) :
            i \in {Str(<<"1", "2", "0">>), Str(<<"a", "1">>)},
            t \in {ID, <<"i", "s", "b", "n">>}}
    \cup {Args2(IDENTIFIER, Str(<<"1", "0", ".", "1", "/", "a">>), k, Str(<<"n">>)) :
            k \in {<<"i", "n", "c", "l", "u", "d", "e", "_", "s", "o", "u", "r", "c", "e", "s">>, <<"c", "i", "t", "a", "t", "i", "o", "n", "_", "t", "y", "p", "e">>}}

\* the tools/call requests tried one at a time: every tool, and names that
\* are not registered
ToolInvocations ==
  {[name |-> "explore_research_outputs", args |-> a] :
     a \in ExploreInvocationArgs}
    \cup {[name |-> n, args |-> Args1(<<"q">>, Str(<<"a">>))] :
            n \in tools \ (DetailsTools \cup {"explore_research_outputs"})}
    \cup {[name |-> "search_citations", args |-> a] :
            a \in SearchInvocationArgs}
    \cup {[name |-> n, args |-> a] :
            n \in IdentifierTools, a \in IdentifierInvocationArgs}
    \cup {[name |-> n, args |-> Obj(<<>>)] :
            n \in {"no_such_tool", "constructor", "__proto__"}}

(***************************************************************************)
(* State.                                                                  *)
(***************************************************************************)
VARIABLES
  filters,      \* the filters argument of the call
  secret,       \* the secret argument / EXPLORER_API_SECRET
  apiKey,       \* the apiKey argument / EXPLORER_API_KEY
  pc,           \* where the call stands
  result,       \* completion of the call: returned value or thrown error
  readFilters,  \* generateExplorerDigest has read its filters argument
  updates,      \* the strings handed to hmac.update, in order
  url,          \* url.searchParams, in append order
  fetched,      \* the URLs handed to fetch, in order
  response,     \* the response fetch resolved with
  log,          \* console.error lines
  env,          \* process.env as read by index.js
  process,      \* where the server process stands
  calls,        \* the tools/call requests received, in arrival order
  toolLists,    \* the answers to tools/list requests, in order
  validation,   \* the call of validateIdentifier under way or completed
  release       \* the run of publish.sh

\* the state of the server process (index.js); idle while the functions of
\* api-client.js are called directly
serverVars == <<env, process, calls, toolLists, validation, release>>

vars == <<filters, secret, apiKey, pc, result, readFilters, updates, url,
          fetched, response, log, env, process, calls, toolLists, validation,
          release>>

\* an argument no call has bound yet
Unbound == [t |-> "unbound"]

\* validateIdentifier is not called, publish.sh is not run
NoValidation == [pc |-> "off"]
NoRelease == [pc |-> "off"]

\* a call of validateIdentifier: its arguments, what the library consulted
\* returns, where the call stands and its completion
Validation(identifier, identifier_type, extracted, at, outcome) ==
  [identifier |-> identifier, identifier_type |-> identifier_type,
   extracted |-> extracted, pc |-> at, result |-> outcome]

\* no tools/list request, no validateIdentifier call, no publish.sh run
OthersIdle ==
  /\ toolLists = <<>>
  /\ validation = NoValidation
  /\ release = NoRelease

Init ==
  /\ filters \in FilterInputs
  /\ secret = Unbound
  /\ apiKey = Unbound
  /\ pc = "start"
  /\ result = NoResult
  /\ readFilters = FALSE
  /\ updates = <<>>
  /\ url = <<>>
  /\ fetched = <<>>
  /\ response = NoResponse
  /\ log = <<>>
  /\ env = NoEnv
  /\ process = Process("off", <<>>, FALSE, FALSE)
  /\ calls = <<>>
  /\ OthersIdle

\* Variant: the keys are sorted in the filters object itself.
CallGenerateExplorerDigest_SortsInPlace ==
  /\ pc = "start"
  /\ \E s \in Secrets :
       LET call == generateExplorerDigest(filters, s)
           keys == Sort(ObjectKeys(filters))
       IN /\ secret' = s
          /\ result' = call.result
          /\ readFilters' = call.readFilters
          /\ updates' = call.updates
          /\ filters' = IF call.result.kind = "return"
                        THEN Obj([i \in 1..Len(keys) |->
                                    Entry(keys[i], Get(filters, keys[i]))])
                        ELSE filters
  /\ pc' = "digest_done"
  /\ UNCHANGED <<apiKey, url, fetched, response, log>>
  /\ UNCHANGED serverVars

\* A direct call generateExplorerDigest(filters, secret).
CallGenerateExplorerDigest ==
  /\ pc = "start"
  /\ \E s \in Secrets :
       LET call == generateExplorerDigest(filters, s)
       IN /\ secret' = s
          /\ result' = call.result
          /\ readFilters' = call.readFilters
          /\ updates' = call.updates
  /\ pc' = "digest_done"
  /\ UNCHANGED <<filters, apiKey, url, fetched, response, log>>
  /\ UNCHANGED serverVars

\* makeExplorerApiRequest(endpoint, filters, apiKey, secret, baseUrl) up to
\* `await fetch(url.toString())`, or to the rejection before it.
CallMakeExplorerApiRequest ==
  /\ pc = "start"
  /\ \E k \in ApiKeys, s \in RequestSecrets :
       LET call == makeExplorerApiRequest(filters, k, s)
       IN /\ apiKey' = k
          /\ secret' = s
          /\ url' = call.url
          /\ readFilters' = call.digest.readFilters
          /\ updates' = call.digest.updates
          /\ IF call.settled.kind = "throw"
             THEN /\ result' = call.settled
                  /\ pc' = "rejected"
                  /\ fetched' = fetched
             ELSE /\ result' = NoResult
                  /\ pc' = "await_fetch"
                  /\ fetched' = Append(fetched, call.url)
  /\ UNCHANGED <<filters, response, log>>
  /\ UNCHANGED serverVars

\* fetch resolves with a response (line 119).
FetchResolves ==
  /\ pc = "await_fetch"
  /\ \E r \in Responses :
       /\ response' = r
       /\ pc' = IF r.ok THEN "await_json" ELSE "await_text"
  /\ UNCHANGED <<filters, secret, apiKey, result, readFilters, updates, url,
                 fetched, log>>
  /\ UNCHANGED serverVars

\* fetch rejects (network failure): the await rethrows.
FetchRejects ==
  /\ pc = "await_fetch"
  /\ result' = Throw(TypeError(Message("fetch failed")))
  /\ pc' = "rejected"
  /\ UNCHANGED <<filters, secret, apiKey, readFilters, updates, url, fetched,
                 response, log>>
  /\ UNCHANGED serverVars

\* lines 121-126: non-OK response, after `await response.text()`.
ErrorTextRead ==
  /\ pc = "await_text"
  /\ log' = Append(log, [text |-> "Explorer API error", status |-> response.status,
                         errorText |-> response.body])
  /\ result' = Throw(Error([text |-> "API request failed with status ",
                            status |-> response.status]))
  /\ pc' = "rejected"
  /\ UNCHANGED <<filters, secret, apiKey, readFilters, updates, url, fetched,
                 response>>
  /\ UNCHANGED serverVars

\* line 128: return response.json()
JsonParsed ==
  /\ pc = "await_json"
  /\ result' = Return([json |-> response.body])
  /\ pc' = "resolved"
  /\ UNCHANGED <<filters, secret, apiKey, readFilters, updates, url, fetched,
                 response, log>>
  /\ UNCHANGED serverVars

\* makeDetailsApiRequest(endpoint, params, apiKey, baseUrl) with `filters` as
\* its params, up to `await fetch(url.toString())` (line 67), or to the
\* rejection before it.
CallMakeDetailsApiRequest ==
  /\ pc = "start"
  /\ DetailsParams(filters)
  /\ \E k \in ApiKeys :
       LET call == makeDetailsApiRequest(filters, k)
       IN /\ apiKey' = k
          /\ url' = call.url
          /\ IF call.settled.kind = "throw"
             THEN /\ result' = call.settled
                  /\ pc' = "details_rejected"
                  /\ fetched' = fetched
             ELSE /\ result' = NoResult
                  /\ pc' = "details_await_fetch"
                  /\ fetched' = Append(fetched, call.url)
  /\ UNCHANGED <<filters, secret, readFilters, updates, response, log>>
  /\ UNCHANGED serverVars

\* fetch resolves with a response (line 67).
DetailsFetchResolves ==
  /\ pc = "details_await_fetch"
  /\ \E r \in Responses :
       /\ response' = r
       /\ pc' = IF r.ok THEN "details_await_json" ELSE "details_await_text"
  /\ UNCHANGED <<filters, secret, apiKey, result, readFilters, updates, url,
                 fetched, log>>
  /\ UNCHANGED serverVars

\* fetch rejects (network failure): the await rethrows.
DetailsFetchRejects ==
  /\ pc = "details_await_fetch"
  /\ result' = Throw(TypeError(Message("fetch failed")))
  /\ pc' = "details_rejected"
  /\ UNCHANGED <<filters, secret, apiKey, readFilters, updates, url, fetched,
                 response, log>>
  /\ UNCHANGED serverVars

\* Variant: the thrown message carries the response body.
DetailsErrorTextRead_BodyInMessage ==
  /\ pc = "details_await_text"
  /\ log' = Append(log, [text |-> "Details API error", status |-> response.status,
                         errorText |-> response.body])
  /\ result' = Throw(Error([text |-> "API request failed with status ",
                            status |-> response.status,
                            errorText |-> response.body]))
  /\ pc' = "details_rejected"
  /\ UNCHANGED <<filters, secret, apiKey, readFilters, updates, url, fetched,
                 response>>
  /\ UNCHANGED serverVars

\* lines 69-74: non-OK response, after `await response.text()`.
DetailsErrorTextRead ==
  /\ pc = "details_await_text"
  /\ log' = Append(log, [text |-> "Details API error", status |-> response.status,
                         errorText |-> response.body])
  /\ result' = Throw(Error([text |-> "API request failed with status ",
                            status |-> response.status]))
  /\ pc' = "details_rejected"
  /\ UNCHANGED <<filters, secret, apiKey, readFilters, updates, url, fetched,
                 response>>
  /\ UNCHANGED serverVars

\* line 76: return response.json()
DetailsJsonParsed ==
  /\ pc = "details_await_json"
  /\ result' = Return([json |-> response.body])
  /\ pc' = "details_resolved"
  /\ UNCHANGED <<filters, secret, apiKey, readFilters, updates, url, fetched,
                 response, log>>
  /\ UNCHANGED serverVars

Next ==
  \/ CallGenerateExplorerDigest
  \/ CallMakeExplorerApiRequest
  \/ FetchResolves
  \/ FetchRejects
  \/ ErrorTextRead
  \/ JsonParsed
  \/ CallMakeDetailsApiRequest
  \/ DetailsFetchResolves
  \/ DetailsFetchRejects
  \/ DetailsErrorTextRead
  \/ DetailsJsonParsed

Spec == Init /\ [][Next]_vars

\* Direct calls of generateExplorerDigest on filters with integer values.
NumberInit ==
  /\ filters \in NumberFilterSets
  /\ secret = Unbound
  /\ apiKey = Unbound
  /\ pc = "start"
  /\ result = NoResult
  /\ readFilters = FALSE
  /\ updates = <<>>
  /\ url = <<>>
  /\ fetched = <<>>
  /\ response = NoResponse
  /\ log = <<>>
  /\ env = NoEnv
  /\ process = Process("off", <<>>, FALSE, FALSE)
  /\ calls = <<>>
  /\ OthersIdle

NumberNext == CallGenerateExplorerDigest

NumberSpec == NumberInit /\ [][NumberNext]_vars

TypeOK ==
  /\ pc \in {"start", "digest_done", "await_fetch", "await_text", "await_json",
             "rejected", "resolved", "details_await_fetch",
             "details_await_text", "details_await_json", "details_rejected",
             "details_resolved"}
  /\ Len(fetched) <= 1

(***************************************************************************)
(* The server process (index.js).                                          *)
(***************************************************************************)
\* the variables of a direct call, idle in the server process, and those
\* startup and the handling of a tools/call request leave alone
directVars == <<filters, secret, apiKey, pc, result, readFilters, updates, url,
                response>>
callVars == <<directVars, toolLists, validation, release>>

ServerInit ==
  /\ env \in Envs
  /\ process = Process("validate", <<>>, FALSE, FALSE)
  /\ calls = <<>>
  /\ filters = Undefined
  /\ secret = Unbound
  /\ apiKey = Unbound
  /\ pc = "start"
  /\ result = NoResult
  /\ readFilters = FALSE
  /\ updates = <<>>
  /\ url = <<>>
  /\ fetched = <<>>
  /\ response = NoResponse
  /\ log = <<>>
  /\ OthersIdle

\* lines 109-134: the startup validation, then createTools
Startup ==
  /\ process.at = "validate"
  /\ IF ~hasDetailsApi(env) /\ ~hasExplorerApi(env)
     THEN /\ log' = log \o ConfigurationErrorLines
          /\ process' = Process("exited", <<1>>, FALSE, FALSE)
     ELSE /\ log' = log
          /\ process' = Process("connect", <<>>, TRUE, FALSE)
  /\ UNCHANGED <<env, calls, fetched>>
  /\ UNCHANGED callVars

\* lines 184-189: main() connects the transport
Connect ==
  /\ process.at = "connect"
  /\ process' = Process("running", <<>>, TRUE, TRUE)
  /\ log' = Append(log, RunningLine)
  /\ UNCHANGED <<env, calls, fetched>>
  /\ UNCHANGED callVars

\* lines 191-194: server.connect rejects
ConnectFails ==
  /\ process.at = "connect"
  /\ process' = Process("exited", <<1>>, TRUE, FALSE)
  /\ log' = Append(log, FatalErrorLine(Error(Message("connect failed"))))
  /\ UNCHANGED <<env, calls, fetched>>
  /\ UNCHANGED callVars

RECURSIVE SignedBy(_)
\* the strings the calls cs handed to hmac.update, concatenated
SignedBy(cs) ==
  IF Len(cs) = 0 THEN <<>>
  ELSE LET last == cs[Len(cs)]
       IN SignedBy(SubSeq(cs, 1, Len(cs) - 1))
            \o (IF ValuesNamed(last.url, DigestName) # <<>>
                THEN filterString(last.filters) ELSE <<>>)

\* Variant: one Hmac object is created when the module loads and every call
\* updates it, so a digest covers what earlier calls signed.
CallTool_SharedHmac ==
  /\ process.at = "running"
  /\ Len(calls) < MaxCalls
  /\ \E c \in ToolCalls :
       LET handled == CallToolRequest(c.name, c.args,
                                      HandlerFilters(c.name, c.args),
                                      Config(env))
           call == handled.call
           signed == [n \in 1..Len(call.url) |->
                        IF call.url[n].name = DigestName
                        THEN Param(DigestName,
                                   HexDigest(Hmac(env.ALTMETRIC_EXPLORER_API_SECRET,
                                                  SignedBy(calls)
                                                    \o filterString(call.filters))))
                        ELSE call.url[n]]
       IN /\ calls' = Append(calls, [call EXCEPT !.url = signed])
          /\ log' = log \o handled.lines
          /\ fetched' = fetched \o (IF handled.fetch = <<>> THEN <<>>
                                    ELSE <<signed>>)
  /\ UNCHANGED <<env, process>>
  /\ UNCHANGED callVars

\* Variant: the handlers fill one filters object kept at module level, so
\* what the previous call set and this call does not set stays in it.
CallTool_SharedFilters ==
  /\ process.at = "running"
  /\ Len(calls) < MaxCalls
  /\ \E c \in ToolCalls :
       LET own == HandlerFilters(c.name, c.args).entries
           kept == IF Len(calls) = 0 THEN <<>>
                   ELSE SelectSeq(calls[Len(calls)].filters.entries,
                                  LAMBDA e : e.key \notin KeysOf(own))
           handled == CallToolRequest(c.name, c.args, Obj(kept \o own),
                                      Config(env))
       IN /\ calls' = Append(calls, handled.call)
          /\ log' = log \o handled.lines
          /\ fetched' = fetched \o handled.fetch
  /\ UNCHANGED <<env, process>>
  /\ UNCHANGED callVars

\* lines 157-181: a tools/call request arrives; its handler runs up to its
\* await on fetch, or to its end when it fails before
CallTool ==
  /\ process.at = "running"
  /\ Len(calls) < MaxCalls
  /\ \E c \in ToolCalls :
       LET handled == CallToolRequest(c.name, c.args,
                                      HandlerFilters(c.name, c.args),
                                      Config(env))
       IN /\ calls' = Append(calls, handled.call)
          /\ log' = log \o handled.lines
          /\ fetched' = fetched \o handled.fetch
  /\ UNCHANGED <<env, process>>
  /\ UNCHANGED callVars

\* api-client.js lines 67 and 119: the fetch of call i resolves
ToolFetchResolves(i) ==
  /\ calls[i].pc = "await_fetch"
  /\ \E r \in ServerResponses :
       calls' = [calls EXCEPT ![i].response = r,
                              ![i].pc = IF r.ok THEN "await_json"
                                        ELSE "await_text"]
  /\ UNCHANGED <<env, process, log, fetched>>
  /\ UNCHANGED callVars

\* the fetch of call i rejects; the handler rethrows and lines 167-180 turn
\* the error into an error result
ToolFetchRejects(i) ==
  /\ calls[i].pc = "await_fetch"
  /\ LET error == TypeError(Message("fetch failed"))
     IN /\ calls' = [calls EXCEPT ![i].pc = "done",
                                  ![i].result = Return(ErrorResult(error))]
        /\ log' = Append(log, ToolErrorLine(calls[i].name, error))
  /\ UNCHANGED <<env, process, fetched>>
  /\ UNCHANGED callVars

\* api-client.js lines 71 and 123: the line logged for a non-OK response
ApiErrorLine(name, r) ==
  [text |-> IF name \notin DetailsTools THEN "Explorer API error"
            ELSE "Details API error",
   status |-> r.status, errorText |-> r.body]

\* api-client.js lines 69-74 and 121-126, then index.js lines 167-180:
\* call i got a non-OK response
ToolErrorTextRead(i) ==
  /\ calls[i].pc = "await_text"
  /\ LET error == RequestFailed(calls[i].response.status).error
     IN /\ calls' = [calls EXCEPT ![i].pc = "done",
                                  ![i].result = Return(ErrorResult(error))]
        /\ log' = log \o <<ApiErrorLine(calls[i].name, calls[i].response),
                            ToolErrorLine(calls[i].name, error)>>
  /\ UNCHANGED <<env, process, fetched>>
  /\ UNCHANGED callVars

\* api-client.js lines 76 and 128, then the handler's return: call i got an
\* OK response
ToolJsonParsed(i) ==
  /\ calls[i].pc = "await_json"
  /\ calls' = [calls EXCEPT
                ![i].pc = "done",
                ![i].result =
                  Return(TextResult([json |-> calls[i].response.body]))]
  /\ UNCHANGED <<env, process, log, fetched>>
  /\ UNCHANGED callVars

ServerNext ==
  \/ Startup
  \/ Connect
  \/ ConnectFails
  \/ CallTool
  \/ \E i \in 1..Len(calls) : ToolFetchResolves(i)
  \/ \E i \in 1..Len(calls) : ToolFetchRejects(i)
  \/ \E i \in 1..Len(calls) : ToolErrorTextRead(i)
  \/ \E i \in 1..Len(calls) : ToolJsonParsed(i)

ServerSpec == ServerInit /\ [][ServerNext]_vars

(***************************************************************************)
(* The server process answering one request at a time.                     *)
(***************************************************************************)
\* Variant: the list holds only the tools whose API is configured.
ListTools_ConfiguredOnly ==
  /\ process.at = "running"
  /\ toolLists = <<>>
  /\ toolLists' =
       Append(toolLists,
              SelectSeq(ListedTools,
                        LAMBDA n : IF n \in DetailsTools THEN hasDetailsApi(env)
                                   ELSE hasExplorerApi(env)))
  /\ UNCHANGED <<directVars, fetched, log, env, process, calls, validation,
                 release>>

\* index.js lines 150-154: a tools/list request is answered
ListTools ==
  /\ process.at = "running"
  /\ toolLists = <<>>
  /\ toolLists' = Append(toolLists, ListedTools)
  /\ UNCHANGED <<directVars, fetched, log, env, process, calls, validation,
                 release>>

\* index.js lines 157-181: a tools/call request arrives while no other is
\* being handled; its handler runs up to its await on fetch, or to its end
\* when it fails before
InvokeTool ==
  /\ process.at = "running"
  /\ calls = <<>>
  /\ \E c \in ToolInvocations, x \in Extractions :
       LET handled == HandleToolCall(c.name, c.args, Config(env), x)
       IN /\ calls' = <<handled.call>>
          /\ log' = log \o handled.lines
          /\ fetched' = fetched \o handled.fetch
          /\ validation' =
               IF c.name \in IdentifierTools
               THEN Validation(Get(c.args, IDENTIFIER),
                               IdentifierTypeOf(c.args), x, "done",
                               HandlerValidation(c.args, x))
               ELSE NoValidation
  /\ UNCHANGED <<directVars, env, process, toolLists, release>>

ToolNext ==
  \/ Startup
  \/ Connect
  \/ ConnectFails
  \/ ListTools
  \/ InvokeTool
  \/ \E i \in 1..Len(calls) : ToolFetchResolves(i)
  \/ \E i \in 1..Len(calls) : ToolFetchRejects(i)
  \/ \E i \in 1..Len(calls) : ToolErrorTextRead(i)
  \/ \E i \in 1..Len(calls) : ToolJsonParsed(i)

ToolSpec == ServerInit /\ [][ToolNext]_vars

(***************************************************************************)
(* publish.sh: runs of the release script.                                 *)
(***************************************************************************)
MaxRuns == 2        \* runs of the script, one after the other

\* what the commands of the script can report
Branches == {"main", "dev"}
Commits == {"c1", "c2"}
Versions == {<<"1">>, <<"2">>}
\* read -n 1: one character, or nothing when the operator presses Enter
Replies == {"y", "Y", "n", ""}
\* the status of a command that fails under `set -e`
FailStatuses == {1, 128}

\* line 60: VERSION="v$PKG_VERSION"
Tag(version) == <<"v">> \o version

\* lines 84, 100, 113, 125: [[ $REPLY =~ ^[Yy]$ ]]
Yes(reply) == reply \in {"y", "Y"}

\* lines 82, 98, 111, 123: the prompts of `read -p`
Prompts ==
  [push |-> "Push tag to GitHub? (y/n) ",
   npm |-> "Publish to npm? (y/n) ",
   registry |-> "Publish to MCP Registry? (y/n) ",
   continue |-> "Continue without MCP Registry publish? (y/n) "]

Prompt(prompt, reply) == [prompt |-> prompt, reply |-> reply]
Published(step, what) == [step |-> step, what |-> what]

\* what a run has seen and done so far, and what exists outside it: the
\* tags of the local repository, the tags on GitHub, the versions on npm and
\* everything the runs have published
Run(n, tags, remoteTags, npmVersions, outward) ==
  [pc |-> "branch", run |-> n, exit |-> <<>>,
   branch |-> "", fetch |-> "not run", local |-> "", remote |-> "",
   versions |-> <<>>, version |-> <<>>, tests |-> "not run",
   steps |-> <<>>, prompts |-> <<>>,
   tags |-> tags, remoteTags |-> remoteTags, npmVersions |-> npmVersions,
   outward |-> outward,
   start |-> [tags |-> tags, remoteTags |-> remoteTags,
              npmVersions |-> npmVersions, outward |-> outward]]

\* `exit status`, or the end of the script under `set -e`
Exit(r, status) == [r EXCEPT !.pc = "exited", !.exit = <<status>>]

\* the script is started in a repository where version 1 may already be
\* tagged, pushed or published
PublishInit ==
  /\ \E t \in SUBSET {Tag(<<"1">>)}, g \in SUBSET {Tag(<<"1">>)},
        n \in SUBSET {<<"1">>} :
       release = Run(1, t, g, n, <<>>)
  /\ toolLists = <<>>
  /\ validation = NoValidation
  /\ env = NoEnv
  /\ process = Process("off", <<>>, FALSE, FALSE)
  /\ calls = <<>>
  /\ filters = Undefined
  /\ secret = Unbound
  /\ apiKey = Unbound
  /\ pc = "start"
  /\ result = NoResult
  /\ readFilters = FALSE
  /\ updates = <<>>
  /\ url = <<>>
  /\ fetched = <<>>
  /\ response = NoResponse
  /\ log = <<>>

\* the variables a run of the script leaves alone
releaseOthers == <<directVars, fetched, log, env, process, calls, toolLists,
                   validation>>

\* lines 8-14: the branch check
CheckBranch ==
  /\ release.pc = "branch"
  /\ \E b \in Branches :
       release' = IF b # "main"
                  THEN Exit([release EXCEPT !.branch = b], 1)
                  ELSE [release EXCEPT !.branch = b, !.pc = "fetch"]
  /\ UNCHANGED releaseOthers

\* line 18: git fetch origin main
GitFetch ==
  /\ release.pc = "fetch"
  /\ \/ release' = [release EXCEPT !.fetch = "done", !.pc = "sync"]
     \/ \E status \in FailStatuses :
          release' = Exit([release EXCEPT !.fetch = "failed"], status)
  /\ UNCHANGED releaseOthers

\* lines 21-42: local and remote commit compared
CompareCommits ==
  /\ release.pc = "sync"
  /\ \E l \in Commits, r \in Commits :
       LET seen == [release EXCEPT !.local = l, !.remote = r]
       IN release' = IF l # r THEN Exit(seen, 1)
                     ELSE [seen EXCEPT !.pc = "versions"]
  /\ UNCHANGED releaseOthers

\* lines 46-61: the versions of package.json, server.json and
\* server.json packages[0]
CheckVersions ==
  /\ release.pc = "versions"
  /\ \E p \in Versions, s \in Versions, sp \in Versions :
       LET seen == [release EXCEPT !.versions = <<p, s, sp>>]
       IN release' = IF p # s \/ p # sp THEN Exit(seen, 1)
                     ELSE [seen EXCEPT !.version = p, !.pc = "test"]
  /\ UNCHANGED releaseOthers

\* Variant: the script goes on when npm test fails (no `set -e`).
RunTests_Unchecked ==
  /\ release.pc = "test"
  /\ \E passed \in {"passed", "failed"} :
       release' = [release EXCEPT !.tests = passed, !.pc = "tag"]
  /\ UNCHANGED releaseOthers

\* line 66: npm test
RunTests ==
  /\ release.pc = "test"
  /\ \/ release' = [release EXCEPT !.tests = "passed", !.pc = "tag"]
     \/ \E status \in FailStatuses :
          release' = Exit([release EXCEPT !.tests = "failed"], status)
  /\ UNCHANGED releaseOthers

\* lines 70-75: the tag is created unless it exists
CreateTag ==
  /\ release.pc = "tag"
  /\ release' =
       IF Tag(release.version) \in release.tags
       THEN [release EXCEPT !.pc = "push"]
       ELSE [release EXCEPT !.tags = @ \cup {Tag(release.version)},
                            !.steps = Append(@, "git tag"),
                            !.pc = "push"]
  /\ UNCHANGED releaseOthers

\* Variant: the operator is asked about the push whether the tag is on
\* GitHub or not.
PushTag_AlwaysAsked ==
  /\ release.pc = "push"
  /\ \E reply \in Replies :
       LET asked == [release EXCEPT
                       !.prompts = Append(@, Prompt(Prompts.push, reply))]
           ran == [asked EXCEPT !.steps = Append(@, "git push")]
       IN IF ~Yes(reply)
          THEN release' = [asked EXCEPT !.pc = "npm"]
          ELSE release' =
                 [ran EXCEPT
                    !.remoteTags = @ \cup {Tag(release.version)},
                    !.outward = Append(@, Published("git push",
                                                    Tag(release.version))),
                    !.pc = "npm"]
  /\ UNCHANGED releaseOthers

\* lines 79-91: the tag is pushed unless it is on GitHub, when the operator
\* agrees
PushTag ==
  /\ release.pc = "push"
  /\ IF Tag(release.version) \in release.remoteTags
     THEN release' = [release EXCEPT !.pc = "npm"]
     ELSE \E reply \in Replies :
            LET asked == [release EXCEPT
                            !.prompts = Append(@, Prompt(Prompts.push, reply))]
                ran == [asked EXCEPT !.steps = Append(@, "git push")]
            IN IF ~Yes(reply)
               THEN release' = [asked EXCEPT !.pc = "npm"]
               ELSE \/ release' =
                         [ran EXCEPT
                            !.remoteTags = @ \cup {Tag(release.version)},
                            !.outward =
                               Append(@, Published("git push",
                                                   Tag(release.version))),
                            !.pc = "npm"]
                    \/ \E status \in FailStatuses :
                         release' = Exit(ran, status)
  /\ UNCHANGED releaseOthers

\* lines 95-107: the package is published unless npm has the version, when
\* the operator agrees
NpmPublish ==
  /\ release.pc = "npm"
  /\ IF release.version \in release.npmVersions
     THEN release' = [release EXCEPT !.pc = "registry"]
     ELSE \E reply \in Replies :
            LET asked == [release EXCEPT
                            !.prompts = Append(@, Prompt(Prompts.npm, reply))]
                ran == [asked EXCEPT !.steps = Append(@, "npm publish")]
            IN IF ~Yes(reply)
               THEN release' = [asked EXCEPT !.pc = "registry"]
               ELSE \/ release' =
                         [ran EXCEPT
                            !.npmVersions = @ \cup {release.version},
                            !.outward =
                               Append(@, Published("npm publish",
                                                   release.version)),
                            !.pc = "registry"]
                    \/ \E status \in FailStatuses :
                         release' = Exit(ran, status)
  /\ UNCHANGED releaseOthers

\* lines 111-144: the MCP Registry publish, when the operator agrees and
\* mcp-publisher is installed; without it the operator chooses between
\* going on and exit 1
RegistryPublish ==
  /\ release.pc = "registry"
  /\ \E reply \in Replies :
       LET asked == [release EXCEPT
                       !.prompts = Append(@, Prompt(Prompts.registry, reply))]
       IN IF ~Yes(reply)
          THEN release' = [asked EXCEPT !.pc = "summary"]
          ELSE \/ \E again \in Replies :
                    LET warned ==
                          [asked EXCEPT
                             !.prompts = Append(@, Prompt(Prompts.continue,
                                                          again))]
                    IN release' = IF Yes(again)
                                  THEN [warned EXCEPT !.pc = "summary"]
                                  ELSE Exit(warned, 1)
               \/ \E authenticated \in BOOLEAN :
                    LET ready ==
                          IF authenticated THEN asked
                          ELSE [asked EXCEPT
                                  !.steps =
                                     Append(@, "mcp-publisher login github")]
                        ran == [ready EXCEPT
                                  !.steps = Append(@, "mcp-publisher publish")]
                    IN \/ release' =
                            [ran EXCEPT
                               !.outward =
                                  Append(@, Published("mcp-publisher publish",
                                                      release.version)),
                               !.pc = "summary"]
                       \/ \E status \in FailStatuses :
                            release' = Exit(ran, status)
                       \/ /\ ~authenticated
                          /\ \E status \in FailStatuses :
                               release' = Exit(ready, status)
  /\ UNCHANGED releaseOthers

\* lines 146-153: the summary; the script ends with status 0
Summary ==
  /\ release.pc = "summary"
  /\ release' = Exit(release, 0)
  /\ UNCHANGED releaseOthers

\* the script is run again in the repository as the previous run left it
Rerun ==
  /\ release.pc = "exited"
  /\ release.run < MaxRuns
  /\ release' = Run(release.run + 1, release.tags, release.remoteTags,
                    release.npmVersions, release.outward)
  /\ UNCHANGED releaseOthers

PublishNext ==
  \/ CheckBranch
  \/ GitFetch
  \/ CompareCommits
  \/ CheckVersions
  \/ RunTests
  \/ CreateTag
  \/ PushTag
  \/ NpmPublish
  \/ RegistryPublish
  \/ Summary
  \/ Rerun

PublishSpec == PublishInit /\ [][PublishNext]_vars

(***************************************************************************)
(* Direct calls of validateIdentifier.                                     *)
(***************************************************************************)
ValidatorInit ==
  /\ \E i \in Identifiers, t \in IdentifierTypes, x \in Extractions :
       validation = Validation(i, t, x, "called", NoResult)
  /\ toolLists = <<>>
  /\ release = NoRelease
  /\ env = NoEnv
  /\ process = Process("off", <<>>, FALSE, FALSE)
  /\ calls = <<>>
  /\ filters = Undefined
  /\ secret = Unbound
  /\ apiKey = Unbound
  /\ pc = "start"
  /\ result = NoResult
  /\ readFilters = FALSE
  /\ updates = <<>>
  /\ url = <<>>
  /\ fetched = <<>>
  /\ response = NoResponse
  /\ log = <<>>

\* validators.js lines 16-88
CallValidateIdentifier ==
  /\ validation.pc = "called"
  /\ validation' =
       [validation EXCEPT
          !.pc = "done",
          !.result = validateIdentifier(validation.identifier,
                                        validation.identifier_type,
                                        validation.extracted)]
  /\ UNCHANGED <<directVars, fetched, log, env, process, calls, toolLists,
                 release>>

ValidatorNext == CallValidateIdentifier

ValidatorSpec == ValidatorInit /\ [][ValidatorNext]_vars

(***************************************************************************)
(* Vocabulary of the properties.                                           *)
(***************************************************************************)
\* a direct call of generateExplorerDigest has completed
DigestCallDone == pc = "digest_done"
DigestReturned == DigestCallDone /\ result.kind = "return"

\* the secret is missing, empty, or shorter than 16 characters
SecretMissingEmptyOrShort(s) ==
  \/ s \in {Undefined, Null}
  \/ IsString(s) /\ Len(s.s) = 0
  \/ IsString(s) /\ Len(s.s) < 16

InvalidSecret == Throw(Error(InvalidSecretMessage))

\* the entries of o whose key is not reserved, in enumeration order
IsPlainEntry(e) == e.key \notin ReservedKeys
PlainEntries(o) == SelectSeq(o.entries, IsPlainEntry)

\* o without key k (delete o[k])
Without(o, k) == LET keep(e) == e.key # k IN Obj(SelectSeq(o.entries, keep))

\* o after o[k] = v: in place when k is present, appended otherwise
With(o, k, v) ==
  IF k \in KeysOf(o.entries)
  THEN Obj([i \in 1..Len(o.entries) |->
              IF o.entries[i].key = k THEN Entry(k, v) ELSE o.entries[i]])
  ELSE Obj(Append(o.entries, Entry(k, v)))

\* values tried for order, page[number], page[size]
ReservedTryValues ==
  {Str(<<"a", "|", "b">>), Num(10), Undefined, Arr(<<Str(<<"b">>)>>)}

\* o with its reserved keys all removed, one removed, or one set to any
\* tried value
ReservedVariants(o) ==
  {Obj(PlainEntries(o))}
    \cup {Without(o, k) : k \in ReservedKeys}
    \cup {With(o, k, v) : k \in ReservedKeys, v \in ReservedTryValues}

\* the same entries in every enumeration order
Reorderings(o) ==
  LET n == Len(o.entries)
  IN {Obj([i \in 1..n |-> o.entries[p[i]]]) : p \in Permutations(1..n)}

(***************************************************************************)
(* The reference canonical string of section 4.1 of the specification.    *)
(***************************************************************************)
\* a strictly before b in codepoint order
RefBefore(a, b) ==
  \/ Len(a) < Len(b) /\ SubSeq(b, 1, Len(a)) = a
  \/ \E i \in 1..Len(a) :
       /\ i <= Len(b)
       /\ SubSeq(a, 1, i - 1) = SubSeq(b, 1, i - 1)
       /\ CharCode(a[i]) < CharCode(b[i])

RefText(v) ==
  IF v.t = "number" THEN NumberToString(v.n) ELSE v.s

RECURSIVE RefPipeAll(_)
\* every token preceded by the separator
RefPipeAll(tokens) ==
  IF Len(tokens) = 0 THEN <<>>
  ELSE <<"|">> \o Head(tokens) \o RefPipeAll(Tail(tokens))

RefValueTokens(v) ==
  IF IsArray(v) THEN [i \in 1..Len(v.a) |-> RefText(v.a[i])] ELSE <<RefText(v)>>

RECURSIVE RefTokens(_, _)
\* the tokens of the keys in `keys`, least key first
RefTokens(o, keys) ==
  IF keys = {} THEN <<>>
  ELSE LET k == CHOOSE x \in keys : \A y \in keys \ {x} : RefBefore(x, y)
       IN <<k>> \o RefValueTokens(Get(o, k)) \o RefTokens(o, keys \ {k})

RefCanonical(o) ==
  LET tokens == RefTokens(o, KeysOf(o.entries) \ ReservedKeys)
  IN IF Len(tokens) = 0 THEN <<>>
     ELSE Head(tokens) \o RefPipeAll(Tail(tokens))

\* every value is a string, a number, or a list of strings and numbers
IsScalar(v) == v.t \in {"string", "number"}
IsFilterSet(o) ==
  /\ IsObject(o)
  /\ \A i \in 1..Len(o.entries) :
       LET v == o.entries[i].value
       IN \/ IsScalar(v)
          \/ IsArray(v) /\ \A j \in 1..Len(v.a) : IsScalar(v.a[j])

(***************************************************************************)
(* Properties.                                                             *)
(***************************************************************************)
\* C1: a direct call fails with InvalidSecret exactly when the secret is
\* missing, empty or shorter than 16 characters; it then has neither read
\* filters nor signed anything, whatever filters is; and with any other
\* secret (length 16 included) the call returns for every FilterSet.
C1_InvalidSecretExactly ==
  DigestCallDone =>
    /\ (result = InvalidSecret) <=> SecretMissingEmptyOrShort(secret)
    /\ SecretMissingEmptyOrShort(secret) => ~readFilters /\ updates = <<>>
    /\ (~SecretMissingEmptyOrShort(secret) /\ IsFilterSet(filters))
         => result.kind = "return"

\* a 15-character secret is refused although filters is no object at all
C1_Witness ==
  /\ DigestCallDone
  /\ IsString(secret) /\ Len(secret.s) = 15
  /\ filters = Null
  /\ result = InvalidSecret
  /\ ~readFilters

\* C2: the digest returned for filters is the digest of every object that
\* differs from it only in order, page[number], page[size]: with these
\* removed, added, or set to another value.
C2_ReservedKeysIgnored ==
  DigestReturned =>
    \A g \in ReservedVariants(filters) :
      generateExplorerDigest(g, secret).result = result

\* a digest was returned for filters that hold a reserved and a plain key
C2_Witness ==
  /\ DigestReturned
  /\ PAGE_SIZE \in KeysOf(filters.entries)
  /\ ORDER \notin KeysOf(filters.entries)
  /\ Len(PlainEntries(filters)) = 1

\* C3: the digest returned for filters is the digest of the same entries in
\* every other insertion order.
C3_InsertionOrderIrrelevant ==
  DigestReturned =>
    \A g \in Reorderings(filters) :
      generateExplorerDigest(g, secret).result = result

\* a digest was returned for filters inserted as b, then a
C3_Witness ==
  /\ DigestReturned
  /\ Len(filters.entries) = 2
  /\ filters.entries[1].key = <<"b">>
  /\ filters.entries[2].key = <<"a">>
  /\ filters.entries[1].value # filters.entries[2].value

\* C4: for every FilterSet the one string signed is the reference canonical
\* string, and the digest is the 40-character lowercase hex form of
\* HMAC-SHA1(secret, that string).
C4_SignsReferenceCanonical ==
  (DigestReturned /\ IsFilterSet(filters)) =>
    /\ updates = <<RefCanonical(filters)>>
    /\ result.value.of = Hmac(secret, RefCanonical(filters))
    /\ result.value.t = "hexdigest"
    /\ result.value.case = "lower"
    /\ result.value.len = 40

\* {b: ['b', 'b|b'], a: 10} was signed as a|10|b|b|b|b
C4_Witness ==
  /\ DigestReturned
  /\ filters = Obj(<<Entry(<<"b">>, Arr(<<Str(<<"b">>), Str(<<"b", "|", "b">>)>>)),
                     Entry(<<"a">>, Num(10))>>)
  /\ updates = << <<"a", "|", "1", "0", "|", "b", "|", "b", "|", "b", "|", "b">> >>

\* C5: when no key is left after exclusion the empty string is still signed,
\* and the digest returned is the 40-character lowercase hex digest of {}.
C5_EmptyStillSigned ==
  (DigestReturned /\ KeysOf(filters.entries) \subseteq ReservedKeys) =>
    /\ updates = << <<>> >>
    /\ result = generateExplorerDigest(Obj(<<>>), secret).result
    /\ result.value = HexDigest(Hmac(secret, <<>>))
    /\ result.value.len = 40 /\ result.value.case = "lower"

\* a digest was returned for filters that hold only order and page[number]
C5_Witness ==
  /\ DigestReturned
  /\ KeysOf(filters.entries) = {ORDER, PAGE_NUMBER}
  /\ updates = << <<>> >>

\* the string passed to hmac.update by the completed call
Signed == updates[1]

\* the entries of o that hold a list under a plain key
ListEntries(o) ==
  {i \in 1..Len(o.entries) : IsPlainEntry(o.entries[i]) /\ IsArray(o.entries[i].value)}

\* the other orders of a list
OtherOrders(list) ==
  LET n == Len(list)
  IN {[i \in 1..n |-> list[p[i]]] : p \in Permutations(1..n)} \ {list}

\* the text join() gives a value
TokenText(v) == IF IsNullish(v) THEN <<>> ELSE RefText(v)

HasPipe(text) == \E i \in 1..Len(text) : text[i] = "|"

\* the elements have pairwise different texts, none holding the separator
CleanList(list) ==
  /\ \A i \in 1..Len(list) : ~HasPipe(TokenText(list[i]))
  /\ \A i, j \in 1..Len(list) :
       i # j => TokenText(list[i]) # TokenText(list[j])

\* in parts, key k is directly followed by the elements of list, in order
EmittedInOrder(ps, k, list) ==
  \E i \in 1..Len(ps) :
    /\ ps[i] = Str(k)
    /\ i + Len(list) <= Len(ps)
    /\ SubSeq(ps, i + 1, i + Len(list)) = list

\* C6 as stated: the elements of a list follow its key in their original
\* order, and putting the (different) elements of one list in another order
\* always changes the canonical string.
C6_Original ==
  DigestReturned =>
    \A i \in ListEntries(filters) :
      LET e == filters.entries[i]
      IN /\ EmittedInOrder(parts(filters), e.key, e.value.a)
         /\ \A other \in OtherOrders(e.value.a) :
              filterString(With(filters, e.key, Arr(other))) # Signed

\* C6 (amended): the elements of a list follow its key in their original
\* order, and putting the elements of one list in another order changes
\* the canonical string whenever the elements have pairwise different
\* texts and none contains the separator.
C6_ListOrderKept ==
  DigestReturned =>
    \A i \in ListEntries(filters) :
      LET e == filters.entries[i]
      IN /\ EmittedInOrder(parts(filters), e.key, e.value.a)
         /\ CleanList(e.value.a) =>
              \A other \in OtherOrders(e.value.a) :
                filterString(With(filters, e.key, Arr(other))) # Signed

\* a digest was returned for {a: [10, 'b']}, signed as a|10|b
C6_Witness ==
  /\ DigestReturned
  /\ filters = Obj(<<Entry(<<"a">>, Arr(<<Num(10), Str(<<"b">>)>>))>>)
  /\ Signed = <<"a", "|", "1", "0", "|", "b">>

\* what a FilterSet says: its plain keys, each with the texts of its value
\* (a scalar as such, a list as the sequence of its elements)
Meaning(o) ==
  {<<e.key, IF IsArray(e.value)
            THEN <<"list", [j \in 1..Len(e.value.a) |-> TokenText(e.value.a[j])]>>
            ELSE <<"scalar", TokenText(e.value)>> >>
     : e \in {o.entries[i] : i \in {j \in 1..Len(o.entries) : IsPlainEntry(o.entries[j])}}}

\* FilterSets to compare with: a and b, each absent or with any value
OptionalEntry(k, values) == {<<>>} \cup {<<Entry(k, v)>> : v \in values}
ComparedSets(values) ==
  {Obj(ea \o eb) : ea \in OptionalEntry(<<"a">>, values),
                   eb \in OptionalEntry(<<"b">>, values)}

AnyValues == Scalars \cup {Arr(l) : l \in Lists}
CleanScalars == {Str(<<"b">>), Num(10), Str(<<"1", "0">>), Str(<<>>)}

\* every plain value is a scalar whose text does not hold the separator
ScalarsOnly(o) ==
  \A i \in 1..Len(o.entries) :
    IsPlainEntry(o.entries[i]) =>
      /\ IsScalar(o.entries[i].value)
      /\ ~HasPipe(TokenText(o.entries[i].value))

\* C7 as stated: a FilterSet's canonical string differs from that of every
\* FilterSet with different plain keys or values.
C7_Original ==
  (DigestReturned /\ IsFilterSet(filters)) =>
    \A g \in ComparedSets(AnyValues) :
      Meaning(g) # Meaning(filters) => filterString(g) # Signed

\* C7 (amended): among FilterSets whose values are all scalars without the
\* separator, the canonical string of one differs from that of every other
\* with different plain keys or different value texts, also when a value
\* equals the name of another key.
C7_UnambiguousAmongScalars ==
  (DigestReturned /\ IsFilterSet(filters) /\ ScalarsOnly(filters)) =>
    \A g \in ComparedSets(CleanScalars) :
      Meaning(g) # Meaning(filters) => filterString(g) # Signed

\* a digest was returned for {a: 'b', b: 10}: the value of a names the key b
C7_Witness ==
  /\ DigestReturned
  /\ filters = Obj(<<Entry(<<"a">>, Str(<<"b">>)), Entry(<<"b">>, Num(10))>>)
  /\ Signed = <<"a", "|", "b", "|", "b", "|", "1", "0">>

(***************************************************************************)
(* Requests.                                                               *)
(***************************************************************************)
\* the call is one of makeDetailsApiRequest
DetailsCall ==
  pc \in {"details_await_fetch", "details_await_text", "details_await_json",
          "details_rejected", "details_resolved"}
\* makeExplorerApiRequest has handed a URL to fetch
RequestIssued == Len(fetched) > 0 /\ ~DetailsCall
Request == fetched[1]

\* the filters the call works on: {} when the argument is undefined
Effective == IF filters = Undefined THEN Obj(<<>>) ELSE filters

\* C8: every request issued carries exactly one key parameter, the API key,
\* and exactly one digest parameter, the digest generateExplorerDigest
\* returns for the filters and the secret; at most one request per call.
C8_KeyAndDigestOnEveryRequest ==
  /\ Len(fetched) <= 1
  /\ RequestIssued =>
       /\ ValuesNamed(Request, <<"k", "e", "y">>) = <<apiKey>>
       /\ ValuesNamed(Request, <<"d", "i", "g", "e", "s", "t">>)
            = <<generateExplorerDigest(Effective, secret).result.value>>
       /\ generateExplorerDigest(Effective, secret).result.kind = "return"

\* a request was issued for empty filters, with the digest of the empty string
C8_Witness ==
  /\ RequestIssued
  /\ filters = Obj(<<>>)
  /\ ValuesNamed(Request, <<"d", "i", "g", "e", "s", "t">>)
       = <<HexDigest(Hmac(secret, <<>>))>>

\* the tokens signed for key k: what follows k in parts up to the next key
SignedFor(o, k) ==
  LET v == Get(o, k)
  IN IF IsArray(v) THEN [j \in 1..Len(v.a) |-> TokenText(v.a[j])]
     ELSE <<TokenText(v)>>

\* the texts sent for key k as filter[k] or filter[k][]
SentFor(params, k) ==
  LET scalar == ValuesNamed(params, <<"f", "i", "l", "t", "e", "r", "[">> \o k \o <<"]">>)
      list == ValuesNamed(params, <<"f", "i", "l", "t", "e", "r", "[">> \o k \o <<"]", "[", "]">>)
      all == scalar \o list
  IN [j \in 1..Len(all) |-> all[j].s]

\* C9: in every request the keys that enter the signed string are exactly
\* the keys sent as filter[key] or filter[key][], with the same values.
C9_SignedMatchesWire ==
  RequestIssued =>
    \A k \in AllKeys :
      /\ Includes(filterKeys(Effective), k) <=> SentFor(Request, k) # <<>>
      /\ Includes(filterKeys(Effective), k) =>
           SignedFor(Effective, k) = SentFor(Request, k)

\* C10: on the wire order, page[number] and page[size] go under their own
\* names and never as filter[...]; every other scalar k goes as filter[k];
\* every list k goes as one filter[k][] per element, in list order; and
\* the signed string never contains the filter[ wrapper.
C10_WireEncoding ==
  RequestIssued =>
    /\ \A i \in 1..Len(Effective.entries) :
         LET k == Effective.entries[i].key
             v == Effective.entries[i].value
             bare == ValuesNamed(Request, k)
             wrapped == ValuesNamed(Request, <<"f", "i", "l", "t", "e", "r", "[">> \o k \o <<"]">>)
             listed == ValuesNamed(Request, <<"f", "i", "l", "t", "e", "r", "[">> \o k \o <<"]", "[", "]">>)
         IN /\ (k \in ReservedKeys /\ IsScalar(v)) =>
                 bare = <<Str(RefText(v))>> /\ wrapped = <<>> /\ listed = <<>>
            /\ k \in ReservedKeys => wrapped = <<>> /\ listed = <<>>
            /\ (k \notin ReservedKeys /\ IsScalar(v)) =>
                 wrapped = <<Str(RefText(v))>> /\ bare = <<>> /\ listed = <<>>
            /\ (k \notin ReservedKeys /\ IsArray(v)) =>
                 /\ listed = [j \in 1..Len(v.a) |-> Str(RefText(v.a[j]))]
                 /\ bare = <<>> /\ wrapped = <<>>
    /\ ~\E i \in 1..Len(Signed) :
         /\ i + 6 <= Len(Signed)
         /\ SubSeq(Signed, i, i + 6) = <<"f", "i", "l", "t", "e", "r", "[">>

\* a request was issued for {order: 'b', a: ['b', 10]}
C10_Witness ==
  /\ RequestIssued
  /\ filters = Obj(<<Entry(ORDER, Str(<<"b">>)),
                     Entry(<<"a">>, Arr(<<Str(<<"b">>), Num(10)>>))>>)
  /\ ValuesNamed(Request, <<"f", "i", "l", "t", "e", "r", "[", "a", "]", "[", "]">>)
       = <<Str(<<"b">>), Str(<<"1", "0">>)>>
  /\ ValuesNamed(Request, ORDER) = <<Str(<<"b">>)>>

(***************************************************************************)
(* Both request builders.                                                  *)
(***************************************************************************)
\* makeDetailsApiRequest has handed a URL to fetch
DetailsRequestIssued == Len(fetched) > 0 /\ DetailsCall

\* the values sent for the entry of key k, under any name the two loops
\* give it: k itself, filter[k] or filter[k][]
ParamsOf(params, k) ==
  ValuesNamed(params, k) \o ValuesNamed(params, FilterName(k))
    \o ValuesNamed(params, FilterListName(k))

\* C11: in the URL of every request of makeDetailsApiRequest and of
\* makeExplorerApiRequest, an entry whose value is undefined or null has no
\* parameter, and an entry with any other value has at least one.
C11_NullishOmittedOthersSent ==
  Len(fetched) > 0 =>
    \A i \in 1..Len(Effective.entries) :
      LET k == Effective.entries[i].key
          v == Effective.entries[i].value
      IN IF IsNullish(v) THEN ParamsOf(Request, k) = <<>>
         ELSE ParamsOf(Request, k) # <<>>

\* the call is one of makeExplorerApiRequest
ExplorerCall ==
  pc \in {"await_fetch", "await_text", "await_json", "rejected", "resolved"}

\* the API key is null, undefined or the empty string
KeyMissing(k) == k \in {Null, Undefined, Str(<<>>)}

\* C12: a call of makeDetailsApiRequest or makeExplorerApiRequest rejects
\* with its own 'ALTMETRIC_..._API_KEY is required ...' error exactly when the
\* API key is null, undefined or the empty string, whatever the parameters
\* and the secret are, and then nothing was handed to fetch.
C12_KeyRequired ==
  /\ ExplorerCall =>
       /\ KeyMissing(apiKey) <=> result = Throw(Error(KeyRequiredMessage))
       /\ KeyMissing(apiKey) => pc = "rejected" /\ fetched = <<>>
  /\ DetailsCall =>
       /\ KeyMissing(apiKey) <=> result = Throw(Error(DetailsKeyRequiredMessage))
       /\ KeyMissing(apiKey) => pc = "details_rejected" /\ fetched = <<>>

\* makeDetailsApiRequest was called with the key '' and one parameter, and
\* rejected without a request
C12_Witness ==
  /\ pc = "details_rejected"
  /\ apiKey = Str(<<>>)
  /\ filters = Obj(<<Entry(<<"a">>, Str(<<"b">>))>>)
  /\ result = Throw(Error(DetailsKeyRequiredMessage))
  /\ fetched = <<>>

\* a response has arrived
Answered == response # NoResponse

C14_DigestLeavesFiltersAndIO ==
  [][pc' = "digest_done" =>
       /\ filters' = filters
       /\ fetched' = fetched
       /\ url' = url
       /\ log' = log
       /\ response' = response]_vars

\* a call has returned for {b: ['b', 10], a: 'b'}: keys and list are still
\* in their unsorted order, and nothing was fetched or logged
C14_Witness ==
  /\ DigestReturned
  /\ filters = Obj(<<Entry(<<"b">>, Arr(<<Str(<<"b">>), Num(10)>>)),
                     Entry(<<"a">>, Str(<<"b">>))>>)
  /\ updates = << <<"a", "|", "b", "|", "b", "|", "b", "|", "1", "0">> >>
  /\ fetched = <<>>
  /\ log = <<>>

(***************************************************************************)
(* The server: what an observer sees, and what a call does on its own.     *)
(***************************************************************************)
\* the request the handler of call c makes when the configured secret is s
RequestUnder(c, s) ==
  HandlerRequest(c.name, c.filters,
                 [Config(env) EXCEPT !.explorerApiSecret = s])

\* the error the handler of call c ends with, given its request and the
\* response the call got
ErrorOf(c, request) ==
  IF request.settled.kind = "throw" THEN request.settled.error
  ELSE IF c.response = NoResponse THEN TypeError(Message("fetch failed"))
  ELSE RequestFailed(c.response.status).error

\* the completion of the finished call c, given its request
Outcome(c, request) ==
  IF ~Truthy(Lookup(c.name)) THEN Throw(UnknownTool(c.name))
  ELSE IF c.name \notin tools THEN Return(ErrorResult(HandlerNotAFunction))
  ELSE IF request.settled.kind = "throw" \/ ~c.response.ok
       THEN Return(ErrorResult(ErrorOf(c, request)))
       ELSE Return(TextResult([json |-> c.response.body]))

\* the URL call c fetches given its request: none for an unknown tool or
\* when the request fails before fetch
UrlOf(c, request) ==
  IF c.name \notin tools \/ request.settled.kind = "throw" THEN <<>>
  ELSE request.url

\* a URL as its reader sees it: a digest is forty hexadecimal digits, which
\* do not show the key they were computed with
Visible(u) ==
  [n \in 1..Len(u) |->
     IF u[n].name = DigestName
     THEN Param(DigestName, [t |-> "hexdigest", case |-> u[n].value.case,
                             len |-> u[n].value.len])
     ELSE u[n]]

\* the requests the handlers of the calls make when the configured secret
\* is s, call by call
RequestsUnder(s) == [i \in 1..Len(calls) |-> RequestUnder(calls[i], s)]

\* a console.error line the server writes when the calls make the given
\* requests
LineWrittenUnder(line, requests) ==
  \/ \E n \in 1..Len(ConfigurationErrorLines) :
       line = ConfigurationErrorLines[n]
  \/ line = RunningLine
  \/ line = FatalErrorLine(Error(Message("connect failed")))
  \/ \E i \in 1..Len(calls) :
       \/ line = ToolErrorLine(calls[i].name, ErrorOf(calls[i], requests[i]))
       \/ /\ calls[i].response # NoResponse
          /\ line = ApiErrorLine(calls[i].name, calls[i].response)

\* s is rejected by generateExplorerDigest exactly when the configured
\* secret is
SameValidity(s) ==
  SecretRejected(s) <=> SecretRejected(env.ALTMETRIC_EXPLORER_API_SECRET)

\* C15: nothing the server lets out shows the value of the Explorer secret:
\* every URL handed to fetch (its digest read as forty hexadecimal digits),
\* every tool result, every thrown message and every console.error line is
\* what it would be with any other secret that is equally valid or invalid.
C15_SecretNeverObservable ==
  \A s \in Secrets \ {env.ALTMETRIC_EXPLORER_API_SECRET} :
    SameValidity(s) =>
      LET others == RequestsUnder(s)
          urls == [i \in 1..Len(calls) |-> Visible(UrlOf(calls[i], others[i]))]
      IN /\ \A i \in 1..Len(calls) :
              /\ Visible(calls[i].url) = urls[i]
              /\ calls[i].pc = "done" =>
                   calls[i].result = Outcome(calls[i], others[i])
         /\ \A n \in 1..Len(fetched) :
              \E i \in 1..Len(calls) : Visible(fetched[n]) = urls[i]
         /\ \A n \in 1..Len(log) : LineWrittenUnder(log[n], others)

\* with a valid secret, explore_research_outputs {q: 'a', page_number: 2}
\* was sent with key, filters and digest and answered 404: the tool result
\* and the two log lines name the status and the body, the URL carries the
\* digest
C15_Witness ==
  /\ ~SecretRejected(env.ALTMETRIC_EXPLORER_API_SECRET)
  /\ Len(calls) > 0
  /\ calls[1].name = "explore_research_outputs"
  /\ calls[1].filters = Obj(<<Entry(<<"q">>, Str(<<"a">>)),
                              Entry(PAGE_NUMBER, Num(2))>>)
  /\ calls[1].pc = "done"
  /\ calls[1].result = Return(ErrorResult(RequestFailed(404).error))
  /\ Len(fetched) > 0
  /\ ValuesNamed(fetched[1], DigestName)
       = <<HexDigest(Hmac(env.ALTMETRIC_EXPLORER_API_SECRET, <<"q", "|", "a">>))>>
  /\ Len(log) = 3

\* the digest call c sent, as the values of its digest parameter
DigestSent(c) == ValuesNamed(c.url, DigestName)

OwnRequest(c) ==
  HandlerRequest(c.name, HandlerFilters(c.name, c.args), Config(env))

RECURSIVE UrlsOf(_)
\* the URLs the calls cs fetched, in the order of the calls
UrlsOf(cs) ==
  IF Len(cs) = 0 THEN <<>>
  ELSE LET last == cs[Len(cs)]
       IN UrlsOf(SubSeq(cs, 1, Len(cs) - 1))
            \o (IF last.url = <<>> THEN <<>> ELSE <<last.url>>)

\* C17: however the continuations of concurrent tool calls interleave, each
\* call's filters object, request URL (digest included) and result are
\* exactly those its own arguments, the configuration and its own response
\* give, and every call's URL is handed to fetch exactly once.
C17_CallsDoNotInterfere ==
  /\ \A i \in 1..Len(calls) :
       LET c == calls[i]
           own == OwnRequest(c)
       IN /\ c.name \in tools => c.filters = HandlerFilters(c.name, c.args)
          /\ c.url = UrlOf(c, own)
          /\ c.pc = "done" => c.result = Outcome(c, own)
          /\ c.pc # "done" => c.result = NoResult
          /\ c.pc = "await_fetch" => c.response = NoResponse
          /\ c.pc = "await_json" => c.response # NoResponse /\ c.response.ok
          /\ c.pc = "await_text" => c.response # NoResponse /\ ~c.response.ok
  /\ fetched = UrlsOf(calls)

\* two Explorer calls with different arguments were in flight together; the
\* second has finished with its own 200 answer while the first still waits
\* for fetch
C17_Witness ==
  /\ Len(calls) > 1
  /\ calls[1].name = "explore_research_outputs"
  /\ calls[2].name = "explore_research_outputs"
  /\ calls[1].filters = Obj(<<Entry(<<"q">>, Str(<<"a">>)),
                              Entry(PAGE_NUMBER, Num(2))>>)
  /\ calls[2].filters = Obj(<<>>)
  /\ calls[1].pc = "await_fetch"
  /\ calls[2].pc = "done"
  /\ calls[2].result.value = TextResult([json |-> "{\"data\":[]}"])
  /\ DigestSent(calls[2])
       = <<HexDigest(Hmac(env.ALTMETRIC_EXPLORER_API_SECRET, <<>>))>>

(***************************************************************************)
(* Numeric-looking keys and numeric values.                                *)
(***************************************************************************)
\* C18: keys are ordered as strings, not as numbers: when filters has the
\* keys '10' and '9' (which every object enumerates as '9', '10', whatever
\* the order they were created in), the signed string starts with key '10'
\* and its value, followed by key '9' and its value.
C18_NumericKeysSortedAsStrings ==
  (DigestReturned /\ IsObject(filters)
     /\ {<<"9">>, <<"1", "0">>} \subseteq KeysOf(filters.entries)) =>
    LET head == <<"1", "0", "|">> \o RefText(Get(filters, <<"1", "0">>))
                  \o <<"|", "9", "|">> \o RefText(Get(filters, <<"9">>))
    IN /\ ObjectKeys(filters)[1] = <<"9">>
       /\ Len(Signed) >= Len(head)
       /\ SubSeq(Signed, 1, Len(head)) = head

\* a call has returned for the object {9: 10, 10: 'b', a: 'b'} and signed
\* '10|b|9|10|a|b'
C18_Witness ==
  /\ DigestReturned
  /\ filters = Obj(<<Entry(<<"9">>, Num(10)), Entry(<<"1", "0">>, Str(<<"b">>)),
                     Entry(<<"a">>, Str(<<"b">>))>>)
  /\ Signed = <<"1", "0", "|", "b", "|", "9", "|", "1", "0", "|", "a", "|", "b">>

\* the strings of one to three decimal digits
DigitStrings ==
  LET D == {DigitChars[i] : i \in 1..Len(DigitChars)}
  IN {<<a>> : a \in D} \cup {<<a, b>> : a, b \in D}
       \cup {<<a, b, c>> : a, b, c \in D}

\* the canonical decimal form of n >= 0: the digits, without leading zero
\* and without separators, whose value is n
DecimalOf ==
  [n \in 0..MaxNumber |->
     CHOOSE d \in DigitStrings : IsIntegerKey(d) /\ KeyToNumber(d) = n]

\* the canonical decimal form of an integer
Decimal(n) == IF n < 0 THEN <<"-">> \o DecimalOf[-n] ELSE DecimalOf[n]

\* v with every number replaced by the string of its canonical decimal form
AsText(v) ==
  IF v.t = "number" THEN Str(Decimal(v.n))
  ELSE IF IsArray(v)
       THEN Arr([j \in 1..Len(v.a) |->
                   IF v.a[j].t = "number" THEN Str(Decimal(v.a[j].n))
                   ELSE v.a[j]])
       ELSE v

\* the filters with every numeric value and list element given as a string
NumbersAsText(o) ==
  Obj([i \in 1..Len(o.entries) |->
         Entry(o.entries[i].key, AsText(o.entries[i].value))])

\* C19: for every integer n of -MaxNumber..MaxNumber, as a scalar value or
\* as a list element, the call signs the same string and returns the same
\* digest as for the filters in which n is given as the string of its
\* canonical decimal form (digits without leading zeros or separators,
\* after a minus sign when negative).
C19_NumberSignedAsDecimal ==
  DigestReturned =>
    /\ NumbersAsText(filters) # filters
    /\ result = generateExplorerDigest(NumbersAsText(filters), secret).result
    /\ updates = generateExplorerDigest(NumbersAsText(filters), secret).updates

\* a call has returned for {a: ['b', 105]} and signed 'a|b|105'
C19_Witness ==
  /\ DigestReturned
  /\ filters = Obj(<<Entry(<<"a">>, Arr(<<Str(<<"b">>), Num(105)>>))>>)
  /\ Signed = <<"a", "|", "b", "|", "1", "0", "5">>

(***************************************************************************)
(* Startup.                                                                *)
(***************************************************************************)
\* an environment variable is set to a non-empty string
NonEmpty(v) == v.t = "string" /\ Len(v.s) > 0

DetailsConfigured == NonEmpty(env.ALTMETRIC_DETAILS_API_KEY)
ExplorerConfigured ==
  /\ NonEmpty(env.ALTMETRIC_EXPLORER_API_KEY)
  /\ NonEmpty(env.ALTMETRIC_EXPLORER_API_SECRET)

\* C20: once the startup validation has run, the process has exited with
\* code 1 without having created the tools exactly when neither the Details
\* API (non-empty key) nor the Explorer API (non-empty key and non-empty
\* secret) is configured; it has then not connected the transport, handled
\* no call and written only the configuration error.  In every other
\* configuration the tools are created and the server goes on to connect;
\* it then exits only when connecting the transport fails.
C20_ExitsExactlyWhenUnconfigured ==
  process.at # "validate" =>
    /\ (~DetailsConfigured /\ ~ExplorerConfigured)
         <=> (process.exits = <<1>> /\ ~process.toolsCreated)
    /\ (~DetailsConfigured /\ ~ExplorerConfigured) =>
         /\ process.at = "exited"
         /\ ~process.connected
         /\ calls = <<>>
         /\ fetched = <<>>
         /\ log = ConfigurationErrorLines
    /\ (DetailsConfigured \/ ExplorerConfigured) =>
         /\ process.toolsCreated
         /\ process.at \in {"connect", "running", "exited"}
         /\ process.at = "running" <=> process.connected
         /\ process.at = "exited" =>
              log = <<FatalErrorLine(Error(Message("connect failed")))>>

\* the Explorer key is set but the secret and the Details key are empty:
\* the process has exited with code 1 before createTools
C20_Witness ==
  /\ env = Env(Str(<<>>), Str(<<"k", "1">>), Str(<<>>))
  /\ process = Process("exited", <<1>>, FALSE, FALSE)
  /\ log = ConfigurationErrorLines

(***************************************************************************)
(* validateIdentifier.                                                     *)
(***************************************************************************)
\* a direct call of validateIdentifier has completed
Validated == validation.pc = "done"

\* v is a non-empty string of decimal digits
DecimalDigits(v) ==
  /\ IsString(v)
  /\ v.s # <<>>
  /\ \A i \in 1..Len(v.s) :
       v.s[i] \in {"0", "1", "2", "3", "4", "5", "6", "7", "8", "9"}

\* the identifier fails the format check of its type: the numeric check of
\* 'id', or the library of the type finding no identifier in it
FailsFormatCheck(v) ==
  IF v.identifier_type = Str(ID) THEN ~DecimalDigits(v.identifier)
  ELSE v.extracted \in {Null, Arr(<<>>)}

\* C25: validateIdentifier throws exactly when the identifier type has a
\* format check and the identifier fails it; for type 'id' it accepts
\* exactly the non-empty strings of decimal digits; for isbn, uri, ssrn and
\* dimensions_publication_id it never throws; the message of every error it
\* throws contains the rejected identifier.
C25_ThrowsExactlyOnFailedCheck ==
  Validated =>
    LET v == validation
        checked == /\ IsString(v.identifier_type)
                   /\ v.identifier_type.s \in CheckedTypes
    IN /\ v.result.kind = "throw" <=> (checked /\ FailsFormatCheck(v))
       /\ v.result.kind # "throw" => v.result = Return(Undefined)
       /\ v.identifier_type = Str(ID) =>
            (v.result = Return(Undefined) <=> DecimalDigits(v.identifier))
       /\ (IsString(v.identifier_type)
             /\ v.identifier_type.s \in UncheckedTypes) =>
            v.result = Return(Undefined)
       /\ v.result.kind = "throw" =>
            v.result.error.message.identifier = StringOf(v.identifier)

\* validateIdentifier('', 'id') threw 'Invalid Altmetric ID format: . Must be
\* numeric.', whatever a library would extract
C25_Witness ==
  /\ Validated
  /\ validation.identifier = Str(<<>>)
  /\ validation.identifier_type = Str(ID)
  /\ validation.extracted = Arr(<<Str(<<"1">>)>>)
  /\ validation.result
       = Throw(Error([text |-> "Invalid Altmetric ID format: ",
                      identifier |-> <<>>, tail |-> ". Must be numeric."]))

(***************************************************************************)
(* The tools of a running server (index.js, lib/tools.js).                 *)
(***************************************************************************)
\* the request the server process is handling or has handled
Invoked == Len(calls) = 1
Finished == Invoked /\ calls[1].pc = "done"

\* the call ended in an error result
IsErrorResult(c) ==
  /\ c.pc = "done"
  /\ c.result.kind = "return"
  /\ "isError" \in DOMAIN c.result.value
  /\ c.result.value.isError

\* the message of the error result the call ended in
ErrorMessageOf(c) == c.result.value.content[1].text.message

\* exactly one of the two APIs is configured
OnlyDetailsConfigured(e) == hasDetailsApi(e) /\ ~hasExplorerApi(e)
OnlyExplorerConfigured(e) == hasExplorerApi(e) /\ ~hasDetailsApi(e)

\* the tool belongs to the API that e leaves unconfigured
OfUnconfiguredApi(name, e) ==
  /\ name \in tools
  /\ \/ OnlyDetailsConfigured(e) /\ name \notin DetailsTools
     \/ OnlyExplorerConfigured(e) /\ name \in DetailsTools

\* the environments with both APIs configured that agree with e on the API
\* e configures
Completed(e) ==
  {f \in Envs :
     /\ hasDetailsApi(f) /\ hasExplorerApi(f)
     /\ hasDetailsApi(e) =>
          f.ALTMETRIC_DETAILS_API_KEY = e.ALTMETRIC_DETAILS_API_KEY
     /\ hasExplorerApi(e) =>
          /\ f.ALTMETRIC_EXPLORER_API_KEY = e.ALTMETRIC_EXPLORER_API_KEY
          /\ f.ALTMETRIC_EXPLORER_API_SECRET = e.ALTMETRIC_EXPLORER_API_SECRET}

\* C21: with exactly one of the two APIs configured the server starts and a
\* tools/list request is answered with all nine tools; a call of a tool of
\* the unconfigured API ends in an error result without any HTTP request;
\* a call of a tool of the configured API does what it does when both APIs
\* are configured, and returns the data of an OK response.
C21_OneApiConfigured ==
  (OnlyDetailsConfigured(env) \/ OnlyExplorerConfigured(env)) =>
    /\ process.exits = <<>> \/ process.toolsCreated
    /\ toolLists # <<>> =>
         /\ Len(toolLists[1]) = 9
         /\ {toolLists[1][i] : i \in 1..9} = tools
    /\ (Invoked /\ OfUnconfiguredApi(calls[1].name, env)) =>
         /\ IsErrorResult(calls[1])
         /\ fetched = <<>>
    /\ (Invoked /\ calls[1].name \in tools
          /\ ~OfUnconfiguredApi(calls[1].name, env)) =>
         LET c == calls[1]
         IN /\ \A f \in Completed(env) :
                 LET full == HandleToolCall(c.name, c.args, Config(f),
                                            validation.extracted)
                 IN /\ fetched = full.fetch
                    /\ c.filters = full.call.filters
                    /\ c.url = full.call.url
                    /\ full.call.pc = "done" => c = full.call
            /\ (c.pc = "done" /\ c.response # NoResponse /\ c.response.ok) =>
                 c.result = Return(TextResult([json |-> c.response.body]))

\* only the Details API is configured; the list has nine tools and
\* explore_mentions {q: 'a'} ended in the error result of the missing
\* Explorer key without a request
C21_Witness ==
  /\ env = Env(Str(<<"k", "1">>), Undefined, Undefined)
  /\ toolLists # <<>>
  /\ Invoked
  /\ calls[1].name = "explore_mentions"
  /\ IsErrorResult(calls[1])
  /\ ErrorMessageOf(calls[1]) = KeyRequiredMessage
  /\ fetched = <<>>

SUBJECT == <<"s", "u", "b", "j", "e", "c", "t">>
SCOPUS_SUBJECTS == <<"s", "c", "o", "p", "u", "s", "_", "s", "u", "b", "j", "e", "c", "t", "s">>

\* the names of the query parameters of a request URL
ParamNames(u) == {u[i].name : i \in 1..Len(u)}

\* C22: search_citations never sends a parameter named subject; the subject
\* argument it is given goes out as scopus_subjects, in the params object
\* and in the query string of the request.
C22_SubjectSentAsScopusSubjects ==
  (Invoked /\ calls[1].name = "search_citations") =>
    LET c == calls[1]
        subject == Get(c.args, SUBJECT)
    IN /\ SUBJECT \notin KeysOf(c.filters.entries)
       /\ SUBJECT \notin ParamNames(c.url)
       /\ \A i \in 1..Len(fetched) : SUBJECT \notin ParamNames(fetched[i])
       /\ Truthy(subject) =>
            /\ Get(c.filters, SCOPUS_SUBJECTS) = subject
            /\ c.pc # "done" \/ c.response # NoResponse =>
                 /\ fetched = <<c.url>>
                 /\ ValuesNamed(c.url, SCOPUS_SUBJECTS)
                      = <<Str(URLString(subject))>>
       /\ ~Truthy(subject) => SCOPUS_SUBJECTS \notin ParamNames(c.url)

\* search_citations {subject: 'a', page: 2} was requested with
\* key=k1&scopus_subjects=a&page=2
C22_Witness ==
  /\ Invoked
  /\ calls[1].name = "search_citations"
  /\ Get(calls[1].args, SUBJECT) = Str(<<"a">>)
  /\ fetched = << <<Param(KeyName, Str(<<"k", "1">>)),
                    Param(SCOPUS_SUBJECTS, Str(<<"a">>)),
                    Param(<<"p", "a", "g", "e">>, Str(<<"2">>))>> >>

CITATION_TYPE == <<"c", "i", "t", "a", "t", "i", "o", "n", "_", "t", "y", "p", "e">>
CITATIONS == <<"c", "i", "t", "a", "t", "i", "o", "n", "s">>

\* the handler of the call got past the validation of its identifier and
\* built its params or filters object
BuiltParams(c) ==
  /\ c.name \in tools
  /\ c.name \in IdentifierTools => validation.result.kind # "throw"

\* C23: get_citation_details sends the citation_type argument it is given
\* as the query parameter citations of its request.
C23_CitationTypeSentAsCitations ==
  (Invoked /\ calls[1].name = "get_citation_details"
     /\ Truthy(Get(calls[1].args, CITATION_TYPE))
     /\ fetched # <<>>) =>
    ValuesNamed(fetched[1], CITATIONS)
      = <<Str(URLString(Get(calls[1].args, CITATION_TYPE)))>>

\* C24: the params or filters object a handler builds has an entry for
\* exactly those of its arguments that are neither null nor undefined,
\* holding the argument's value.
C24_ExactlyNonNullishPassed ==
  (Invoked /\ BuiltParams(calls[1])) =>
    LET c == calls[1]
        pairs == HandlerArgs(c.name)
    IN \A i \in 1..Len(pairs) :
         LET value == Get(c.args, pairs[i][1])
         IN IF value \in {Undefined, Null}
            THEN pairs[i][2] \notin KeysOf(c.filters.entries)
            ELSE /\ pairs[i][2] \in KeysOf(c.filters.entries)
                 /\ Get(c.filters, pairs[i][2]) = value

\* C27: a tools/call request naming no registered tool raises 'Unknown tool:
\* <name>' and runs no handler; a request naming a registered tool never
\* raises: an error of its handler becomes the result {isError: true, text:
\* 'Error executing tool: <message>'}, and the result of a handler that
\* succeeds is returned as it is.
C27_UnknownRaisesHandlerErrorsReturned ==
  Finished =>
    LET c == calls[1]
    IN /\ c.name \notin tools =>
            /\ c.result = Throw(UnknownTool(c.name))
            /\ fetched = <<>>
            /\ log = <<RunningLine>>
       /\ c.name \in tools =>
            /\ c.result.kind = "return"
            /\ IsErrorResult(c) =>
                 c.result.value.content[1].text.text = "Error executing tool: "
            /\ ~IsErrorResult(c) =>
                 /\ c.response # NoResponse /\ c.response.ok
                 /\ c.result = Return(TextResult([json |-> c.response.body]))
            /\ (c.response # NoResponse /\ c.response.ok) => ~IsErrorResult(c)

\* the Explorer API is configured with a key and a secret of 1 to 15
\* characters
ShortSecretConfigured(e) ==
  /\ Truthy(e.ALTMETRIC_EXPLORER_API_KEY)
  /\ IsString(e.ALTMETRIC_EXPLORER_API_SECRET)
  /\ Len(e.ALTMETRIC_EXPLORER_API_SECRET.s) \in 1..(MinSecretLength - 1)

\* the 'Tool error:' lines logged
ToolErrorLines == SelectSeq(log, LAMBDA l : l.text = "Tool error:")

DOI == <<"d", "o", "i">>

\* C29: get_citation_counts and get_citation_details validate the
\* identifier first, under the type 'doi' when identifier_type is omitted;
\* when validateIdentifier throws, the call ends in the error result of
\* that error and no request is built or issued, also when the Details API
\* key is missing.
C29_ValidatedBeforeAnythingElse ==
  (Invoked /\ calls[1].name \in IdentifierTools) =>
    LET c == calls[1]
        v == validation
    IN /\ v.pc = "done"
       /\ v.identifier = Get(c.args, IDENTIFIER)
       /\ v.identifier_type
            = IF Get(c.args, IDENTIFIER_TYPE) = Undefined THEN Str(DOI)
              ELSE Get(c.args, IDENTIFIER_TYPE)
       /\ v.result = validateIdentifier(v.identifier, v.identifier_type,
                                        v.extracted)
       /\ v.result.kind = "throw" =>
            /\ c.result = Return(ErrorResult(v.result.error))
            /\ c.url = <<>>
            /\ fetched = <<>>
            /\ ToolErrorLines = <<ToolErrorLine(c.name, v.result.error)>>

\* no Details API key is configured; get_citation_details {identifier:
\* 'a1'} was checked as a doi and ended in the error result 'Invalid DOI
\* format: a1'
C29_Witness ==
  /\ ~hasDetailsApi(env)
  /\ Invoked
  /\ calls[1].name = "get_citation_details"
  /\ calls[1].args = Args1(IDENTIFIER, Str(<<"a", "1">>))
  /\ validation.identifier_type = Str(DOI)
  /\ ErrorMessageOf(calls[1])
       = FormatMessage("Invalid DOI format: ", Str(<<"a", "1">>), "")
  /\ fetched = <<>>

(***************************************************************************)
(* The release script (publish.sh).                                        *)
(***************************************************************************)
\* the elements of a sequence
Range(s) == {s[i] : i \in 1..Len(s)}

\* what exists outside the run: local tags, tags on GitHub, versions on npm,
\* everything published so far
World(r) ==
  [tags |-> r.tags, remoteTags |-> r.remoteTags,
   npmVersions |-> r.npmVersions, outward |-> r.outward]

\* the four checks of the run held: on main, fetched, local commit equal to
\* the remote one, the three versions equal, npm test passed
ChecksPassed(r) ==
  /\ r.branch = "main"
  /\ r.fetch = "done"
  /\ r.local \in Commits /\ r.local = r.remote
  /\ Len(r.versions) = 3
  /\ r.versions[1] = r.versions[2] /\ r.versions[1] = r.versions[3]
  /\ r.tests = "passed"

\* C26: in a run of publish.sh a tag is created or pushed, npm publish or
\* the MCP Registry publish runs, or the operator is asked about one of
\* them, only after the checks held one after the other: branch main,
\* fetch done, local commit equal to the remote one, the three version
\* fields equal, npm test passed; a run that ends with a check failed ends
\* with a non-zero status and has changed nothing.
C26_StepsOnlyAfterChecks ==
  LET r == release
  IN /\ r.fetch # "not run" => r.branch = "main"
     /\ r.local # "" => r.fetch = "done"
     /\ r.versions # <<>> => r.local = r.remote
     /\ r.tests # "not run" =>
          r.versions[1] = r.versions[2] /\ r.versions[1] = r.versions[3]
     /\ (r.steps # <<>> \/ r.prompts # <<>> \/ World(r) # r.start) =>
          ChecksPassed(r)
     /\ (r.pc = "exited" /\ ~ChecksPassed(r)) =>
          /\ r.exit # <<0>>
          /\ r.steps = <<>>
          /\ World(r) = r.start

\* a run created and pushed the tag v1, published version 1 to npm and to
\* the MCP Registry and ended with status 0
C26_Witness ==
  /\ release.pc = "exited"
  /\ release.exit = <<0>>
  /\ ChecksPassed(release)
  /\ release.version = <<"1">>
  /\ release.steps = <<"git tag", "git push", "npm publish",
                       "mcp-publisher publish">>

\* the operator agreed at the prompt named
Agreed(r, prompt) ==
  \E i \in 1..Len(r.prompts) :
    r.prompts[i].prompt = prompt /\ Yes(r.prompts[i].reply)

\* the step left the run as it was: nothing run, nobody asked, nothing
\* published
Skipped ==
  /\ release'.steps = release.steps
  /\ release'.prompts = release.prompts
  /\ World(release') = World(release)

\* C30: git push, npm publish and the MCP Registry publish run only after
\* the operator answered y or Y at the prompt of that step; nothing is
\* pushed to GitHub or published to npm twice, however often the script is
\* run; a step whose result exists is skipped without a prompt: no tag
\* creation when the tag exists locally, no push when the tag is on
\* GitHub, no npm publish when npm has the version.
C30_AskedFirstAndNothingTwice ==
  /\ [](LET r == release
        IN /\ "git push" \in Range(r.steps) => Agreed(r, Prompts.push)
           /\ "npm publish" \in Range(r.steps) => Agreed(r, Prompts.npm)
           /\ "mcp-publisher publish" \in Range(r.steps) =>
                Agreed(r, Prompts.registry)
           /\ \A i, j \in 1..Len(r.outward) :
                (i < j /\ r.outward[i].step \in {"git push", "npm publish"})
                  => r.outward[i] # r.outward[j])
  /\ [][/\ (release.pc = "tag" /\ Tag(release.version) \in release.tags)
             => Skipped
        /\ (release.pc = "push"
              /\ Tag(release.version) \in release.remoteTags) => Skipped
        /\ (release.pc = "npm"
              /\ release.version \in release.npmVersions) => Skipped]_vars

\* the second run, after a first one that pushed v1 and published version 1
\* to npm, found both, asked only about the MCP Registry, published there
\* again and ended with status 0
C30_Witness ==
  /\ release.run = 2
  /\ release.exit = <<0>>
  /\ release.version = <<"1">>
  /\ release.steps = <<"mcp-publisher publish">>
  /\ release.prompts = <<Prompt(Prompts.registry, "Y")>>
  /\ Published("git push", Tag(<<"1">>)) \in Range(release.outward)
  /\ Published("npm publish", <<"1">>) \in Range(release.outward)

====
